---------------------------- MODULE Spec2Model ----------------------------
(***************************************************************************)
(* MQTT client engine of the vending machine firmware (mqtt.c): the wire   *)
(* codec, the packet builders, the inbound handlers with their dispatch    *)
(* table, the driver registry and the outbound frame queue with its sender *)
(* task.                                                                   *)
(*                                                                         *)
(* Bytes are naturals 0..255, C strings are sequences of non-zero bytes,   *)
(* a buffer is a sequence of bytes whose element i+1 is the C element [i]. *)
(***************************************************************************)
EXTENDS Integers, Sequences, FiniteSets, TLC

VARIABLES
    g_driver,     \* the nine callback slots: "null", "noop" (default) or "app"
    g_uuid,       \* the 16-bit packet identifier counter
    xSendQueue,   \* the outbound queue: a sequence of mqtt_msg records
    fault,        \* "none", or why the firmware stopped
    rx,           \* what the receiver's last dispatch did, in program order
    tx,           \* what the last builder call did
    ids,          \* the identifiers the builders wrote, oldest first
    wire,         \* what the sender task last handed to a transport
    reg,          \* the last registry call: mqtt_init, attach or detach
    calc          \* scratch of the pure-function checks

vars == <<g_driver, g_uuid, xSendQueue, fault, rx, tx, ids, wire, reg, calc>>

-----------------------------------------------------------------------------
(* Program constants *)

MQTT_MAX_MSG_NUM == 6
MQTT_MAX_MSG_SIZE == 128

TYPE_CONNECT == 16
TYPE_CONNACK == 32
TYPE_PUBLISH == 48
TYPE_PUBACK == 64
TYPE_PUBREC == 80
TYPE_PUBREL == 98
TYPE_PUBCOMP == 112
TYPE_SUBSCRIBE == 130
TYPE_SUBACK == 144
TYPE_UNSUBSCRIBE == 162
TYPE_UNSUBACK == 176
TYPE_PINGREQ == 192
TYPE_PINGRESP == 208
TYPE_DISCONNECT == 224

PROTOCOL_LEVEL == 4
protocol_name == <<0, 4, 77, 81, 84, 84>>

\* widths of the C integer types. A uint32_t is held as the two's-complement
\* reading of its 32 bits (the model checker's integers are 32 bits signed),
\* so 0xffffffff is -1 and a difference that wraps below zero is negative.
U8 == 2 ^ 8
U16 == 2 ^ 16

\* the sentinel of decode_length, 0xffffffff
LEN_OVERFLOW == -1

\* the null pointer, which no string equals
NULL == <<-1>>

-----------------------------------------------------------------------------
(* Bit and byte helpers *)

Hi8(x) == (x \div 256) % 256
Lo8(x) == x % 256
BE16(x) == <<Hi8(x), Lo8(x)>>
Bit(x, n) == (x \div (2 ^ n)) % 2

\* data[i] of a buffer that holds Len(data) received bytes; an element at or
\* beyond the received length is whatever the buffer held before (junk)
At(data, i, junk) == IF i < Len(data) THEN data[i + 1] ELSE junk

-----------------------------------------------------------------------------
(* Wire codec: the remaining-length field *)

\* the do-while of encode_length: the byte is stored, and size advanced, only
\* in the branch taken when no digits are left
RECURSIVE EncodeLoop(_, _)
EncodeLoop(data, encode) ==
    LET encode_byte == data % 128
        rest == data \div 128
    IN  IF rest > 0
        THEN EncodeLoop(rest, encode)
        ELSE Append(encode, encode_byte)

encode_length(data) ==
    LET encode == EncodeLoop(data, <<>>)
    IN  [size |-> Len(encode), encode |-> encode]

\* the do-while of decode_length; pos is the index of the byte just before
\* the one this round reads
RECURSIVE DecodeLoop(_, _, _, _, _, _)
DecodeLoop(decode, pos, multipiler, value, step, junk) ==
    LET byte == At(decode, pos + 1, junk)
        value2 == value + (byte % 128) * multipiler
        mult2 == multipiler * 128
    IN  IF mult2 > 128 * 128 * 128
        THEN [value |-> LEN_OVERFLOW, step |-> step + 1]
        ELSE IF byte \div 128 # 0
             THEN DecodeLoop(decode, pos + 1, mult2, value2, step + 1, junk)
             ELSE [value |-> value2, step |-> step + 1]

\* decode_length answering 0 where it gives up
decode_length_zero_on_overflow(decode, junk) ==
    LET r == DecodeLoop(decode, 0, 1, 0, 0, junk)
    IN  IF r.value = LEN_OVERFLOW THEN [value |-> 0, step |-> r.step] ELSE r

decode_length(decode, junk) == DecodeLoop(decode, 0, 1, 0, 0, junk)


-----------------------------------------------------------------------------
(* The outbound queue *)

\* mqtt_send_data placing the frame at the head of the queue
\* (xQueueSendToFront)
mqtt_send_data_to_front(queue, msg) ==
    IF Len(queue) < MQTT_MAX_MSG_NUM THEN <<msg>> \o queue ELSE queue

\* xQueueSend with a 200 ms timeout whose result is ignored: the frame is
\* copied into the queue when a place is free; when the queue still holds
\* MQTT_MAX_MSG_NUM frames at the timeout the call returns and the frame is
\* gone (a call that waits and then succeeds is the same call taken later)
mqtt_send_data(queue, msg) ==
    IF Len(queue) < MQTT_MAX_MSG_NUM THEN Append(queue, msg) ELSE queue

-----------------------------------------------------------------------------
(* Packet builders: the bytes written through pdata, in order.               *)
(*   ok    the size assertion passed                                          *)
(*   data  the bytes stored through pdata (element i+1 is msg.data[i])        *)
(*   size  msg.size                                                           *)
(*   top   the highest offset of msg.data written, the terminating NUL of a   *)
(*         strcpy included                                                    *)
(*   uuid  g_uuid after the call; id the identifier written, -1 if none       *)

\* the string functions on a C string held as a sequence of non-zero bytes
strlen(str) == Len(str)

\* mqtt_publish taking an identifier from the counter for qos 0 as well
PublishBuild_counts_qos0(topic, content, dup, qos, retain, uuid) ==
    LET payload_len == strlen(topic) + 2 + strlen(content)
                       + (IF qos # 0 THEN 2 ELSE 0)
        head == TYPE_PUBLISH + (dup % 2) * 8 + (qos % 4) * 2 + (retain % 2)
        enc == encode_length(payload_len)
        data == <<head>> \o enc.encode \o BE16(strlen(topic) % U16) \o topic
                \o (IF qos # 0 THEN BE16(uuid) ELSE <<>>) \o content
    IN  [ok |-> payload_len + enc.size + 1 <= MQTT_MAX_MSG_SIZE,
         data |-> data,
         size |-> (payload_len + enc.size + 1) % U8,
         top |-> Len(data),
         uuid |-> (uuid + 1) % U16,
         id |-> IF qos # 0 THEN uuid ELSE -1,
         ret |-> -1]

PublishBuild(topic, content, dup, qos, retain, uuid) ==
    LET payload_len == strlen(topic) + 2 + strlen(content)
                       + (IF qos # 0 THEN 2 ELSE 0)
        head == TYPE_PUBLISH + (dup % 2) * 8 + (qos % 4) * 2 + (retain % 2)
        enc == encode_length(payload_len)
        str_len == strlen(topic) % U16
        data == <<head>> \o enc.encode \o BE16(str_len) \o topic
                \o (IF qos # 0 THEN BE16(uuid) ELSE <<>>) \o content
    IN  [ok |-> payload_len + enc.size + 1 <= MQTT_MAX_MSG_SIZE,
         data |-> data,
         size |-> (payload_len + enc.size + 1) % U8,
         top |-> Len(data),
         uuid |-> IF qos # 0 THEN (uuid + 1) % U16 ELSE uuid,
         id |-> IF qos # 0 THEN uuid ELSE -1,
         ret |-> -1]

SubscribeBuild(topic, qos, uuid) ==
    LET payload_len == strlen(topic) + 5
        enc == encode_length(payload_len)
        str_len == strlen(topic) % U16
        data == <<TYPE_SUBSCRIBE>> \o enc.encode \o BE16(uuid)
                \o BE16(str_len) \o topic \o <<qos % 4>>
    IN  [ok |-> payload_len + enc.size + 1 <= MQTT_MAX_MSG_SIZE,
         data |-> data,
         size |-> (payload_len + enc.size + 1) % U8,
         top |-> Len(data) - 1,
         uuid |-> (uuid + 1) % U16,
         id |-> uuid,
         \* return g_uuid, after the increment, as a uint8_t
         ret |-> ((uuid + 1) % U16) % U8]

UnsubscribeBuild(topic, uuid) ==
    LET payload_len == strlen(topic) + 4
        enc == encode_length(payload_len)
        str_len == strlen(topic) % U16
        \* the fixed header byte written is TYPE_SUBSCRIBE
        data == <<TYPE_SUBSCRIBE>> \o enc.encode \o BE16(uuid)
                \o BE16(str_len) \o topic
    IN  [ok |-> payload_len + enc.size + 1 <= MQTT_MAX_MSG_SIZE,
         data |-> data,
         size |-> (payload_len + enc.size + 1) % U8,
         top |-> Len(data),
         uuid |-> (uuid + 1) % U16,
         id |-> uuid,
         ret |-> -1]

\* mqtt_puback, mqtt_pubrec, mqtt_pubcomp: type byte, 0x02, the identifier
AckMsg(type, id) == [size |-> 4, data |-> <<type, 2, Hi8(id), Lo8(id)>>]

mqtt_puback_msg(id) == AckMsg(TYPE_PUBACK, id)
mqtt_pubrec_msg(id) == AckMsg(TYPE_PUBREC, id)
mqtt_pubcomp_msg(id) == AckMsg(TYPE_PUBCOMP, id)

-----------------------------------------------------------------------------
(* CONNECT.  A connect_param is a record                                     *)
(*   [client_id, will_topic, will_msg, username, password: string or NULL,   *)
(*    alive_time: 0..65535,                                                  *)
(*    flag: [clear_session, will_flag, will_retain, username_flag,           *)
(*           password_flag: 0..1, will_qos: 0..3]]                           *)

\* the byte the connect_flag union shows for its bit fields (MQTT 3.1.1
\* layout: bit 1 clean session, 2 will, 3-4 will qos, 5 will retain,
\* 6 password, 7 user name)
ConnectFlagByte(flag) ==
    flag.clear_session * 2 + flag.will_flag * 4 + flag.will_qos * 8
    + flag.will_retain * 32 + flag.password_flag * 64
    + flag.username_flag * 128

\* check_connect_param without the test of the password
check_connect_param_no_password(param) ==
    /\ (param.client_id = NULL => param.flag.clear_session = 1)
    /\ IF param.flag.will_flag = 0
       THEN /\ param.flag.will_qos = 0
            /\ param.flag.will_retain = 0
       ELSE /\ param.flag.will_qos < 3
            /\ param.will_topic # NULL
            /\ param.will_msg # NULL
    /\ (param.flag.username_flag = 1 => param.username # NULL)

\* TRUE when every assert_param of check_connect_param passes
check_connect_param(param) ==
    /\ (param.client_id = NULL => param.flag.clear_session = 1)
    /\ IF param.flag.will_flag = 0
       THEN /\ param.flag.will_qos = 0
            /\ param.flag.will_retain = 0
       ELSE /\ param.flag.will_qos < 3
            /\ param.will_topic # NULL
            /\ param.will_msg # NULL
    /\ (param.flag.username_flag = 1 => param.username # NULL)
    /\ (param.flag.password_flag = 1 => param.password # NULL)

calculate_connect_payload_len(param) ==
    10
    + (IF param.client_id # NULL THEN strlen(param.client_id) + 2 ELSE 0)
    + (IF param.flag.will_flag = 1
       THEN (strlen(param.will_topic) + 2) + (strlen(param.will_msg) + 2)
       ELSE 0)
    + (IF param.flag.username_flag = 1 THEN strlen(param.username) + 2 ELSE 0)
    + (IF param.flag.password_flag = 1 THEN strlen(param.password) + 2 ELSE 0)

\* a 2-byte length followed by the string, as the builder stores it
LenPrefixed(str) == BE16(strlen(str) % U16) \o str

ConnectBuild(param) ==
    LET payload_len == calculate_connect_payload_len(param)
        enc == encode_length(payload_len)
        fixed == <<TYPE_CONNECT>> \o enc.encode \o protocol_name
                 \o <<PROTOCOL_LEVEL, ConnectFlagByte(param.flag),
                      Hi8(param.alive_time), Lo8(param.alive_time)>>
        \* without a client id the builder still stores a zero length
        client == IF param.client_id # NULL
                  THEN LenPrefixed(param.client_id)
                  ELSE <<0, 0>>
        will == IF param.flag.will_flag = 1
                THEN LenPrefixed(param.will_topic) \o LenPrefixed(param.will_msg)
                ELSE <<>>
        user == IF param.flag.username_flag = 1
                THEN LenPrefixed(param.username) ELSE <<>>
        pass == IF param.flag.password_flag = 1
                THEN LenPrefixed(param.password) ELSE <<>>
        data == fixed \o client \o will \o user \o pass
        strcpy_last == \/ param.flag.password_flag = 1
                       \/ param.flag.username_flag = 1
                       \/ param.flag.will_flag = 1
                       \/ param.client_id # NULL
    IN  [ok |-> payload_len + enc.size + 1 <= MQTT_MAX_MSG_SIZE,
         data |-> data,
         size |-> (payload_len + enc.size + 1) % U8,
         top |-> IF strcpy_last THEN Len(data) ELSE Len(data) - 1,
         payload_len |-> payload_len,
         encode_len |-> enc.size]

-----------------------------------------------------------------------------
(* Inbound handlers.  A handler run is a record                              *)
(*   trace  what the handler did, in program order: callback invocations     *)
(*          [ev |-> "cb", slot, fn, args] and mqtt_send_data calls           *)
(*          [ev |-> "send", msg, queued]                                     *)
(*   fault  "none", "assert" (an assert_param failed) or "null_call" (a      *)
(*          null slot was called)                                            *)
(*   queue  the outbound queue                                               *)

Slots == {"connack", "publish", "puback", "pubrec", "pubrel", "pubcomp",
          "suback", "unsuback", "pingresp"}

\* assert_param(cond) in the embedded build: the firmware stops when cond
\* is false
assert_param(run, cond) ==
    IF run.fault = "none" /\ ~cond THEN [run EXCEPT !.fault = "assert"] ELSE run

\* g_driver.<slot>(args)
Invoke(run, slot, args) ==
    IF run.fault # "none" THEN run
    ELSE [run EXCEPT
            !.trace = Append(@, [ev |-> "cb", slot |-> slot,
                                 fn |-> g_driver[slot], args |-> args]),
            !.fault = IF g_driver[slot] = "null" THEN "null_call" ELSE "none"]

\* mqtt_send_data(&msg) from a handler
Emit(run, msg) ==
    IF run.fault # "none" THEN run
    ELSE [run EXCEPT
            !.trace = Append(@, [ev |-> "send", msg |-> msg,
                                 queued |-> Len(run.queue) < MQTT_MAX_MSG_NUM]),
            !.queue = mqtt_send_data(@, msg)]

\* uuid = data[2]; uuid <<= 8; uuid += data[3]
Uuid23(data, junk) == (At(data, 2, junk) * 256 + At(data, 3, junk)) % U16

\* strncpy(dst, data + off, n); dst[n] = 0: the bytes up to the first NUL
\* among the n copied
StrN(data, off, n, junk) ==
    LET stops == {k \in 0..n : k = n \/ At(data, off + k, junk) = 0}
        m == CHOOSE k \in stops : \A j \in stops : k <= j
    IN  [i \in 1..m |-> At(data, off + i - 1, junk)]

\* the n bytes at data + off (what a callback given that pointer and length
\* reads); only lengths a uint8_t frame can hold are materialised
BytesAt(data, off, n, junk) ==
    IF n >= 0 /\ n < U8 THEN [i \in 1..n |-> At(data, off + i - 1, junk)]
    ELSE <<>>

\* process_connack without its length guard
process_connack_unguarded(run, data, len, junk) ==
    Invoke(assert_param(run, decode_length(data, junk).value = 2),
           "connack", <<At(data, 3, junk)>>)

process_connack(run, data, len, junk) ==
    IF len >= 4
    THEN Invoke(assert_param(run, decode_length(data, junk).value = 2),
                "connack", <<At(data, 3, junk)>>)
    ELSE run

\* the locals process_publish computes from a frame
PublishFields(data, len, junk) ==
    LET dl == decode_length(data, junk)
        step == dl.step
        dup == Bit(At(data, 0, junk), 3)
        qos == (At(data, 0, junk) \div 2) % 4
        p0 == step + 1
        topic_len == (At(data, p0, junk) * 256 + At(data, p0 + 1, junk)) % U16
        topic == StrN(data, p0 + 2, IF topic_len >= 42 THEN 41 ELSE topic_len,
                      junk)
        p1 == p0 + 2 + topic_len
        has_id == qos = 1 \/ qos = 2
        id == IF has_id
              THEN (At(data, p1, junk) * 256 + At(data, p1 + 1, junk)) % U16
              ELSE 0
        p2 == IF has_id THEN p1 + 2 ELSE p1
        len2 == IF has_id THEN (len + U8 - 2) % U8 ELSE len
        \* an int, converted to the uint32_t parameter
        content_len == len2 - step - topic_len - 3
    IN  [data_len |-> dl.value, step |-> step, dup |-> dup, qos |-> qos,
         topic_len |-> topic_len, topic |-> topic, id |-> id,
         content_off |-> p2, content_len |-> content_len,
         content |-> BytesAt(data, p2, content_len, junk)]

process_publish(run, data, len, junk) ==
    IF len >= 4
    THEN LET f == PublishFields(data, len, junk)
             called == Invoke(run, "publish",
                              <<f.topic, f.content, f.content_len>>)
         IN  CASE f.qos = 1 -> Emit(called, mqtt_puback_msg(f.id))
               [] f.qos = 2 -> Emit(called, mqtt_pubrec_msg(f.id))
               [] OTHER -> called
    ELSE run

process_puback(run, data, len, junk) ==
    IF len >= 4
    THEN Invoke(assert_param(run, decode_length(data, junk).value = 2),
                "puback", <<Uuid23(data, junk)>>)
    ELSE run

\* process_pubrec completing the QoS 2 publisher handshake by itself
process_pubrec_sends_pubrel(run, data, len, junk) ==
    IF len >= 4
    THEN Emit(Invoke(assert_param(run, decode_length(data, junk).value = 2),
                     "pubrec", <<Uuid23(data, junk)>>),
              AckMsg(TYPE_PUBREL, Uuid23(data, junk)))
    ELSE run

process_pubrec(run, data, len, junk) ==
    IF len >= 4
    THEN Invoke(assert_param(run, decode_length(data, junk).value = 2),
                "pubrec", <<Uuid23(data, junk)>>)
    ELSE run

process_pubrel(run, data, len, junk) ==
    IF len >= 4
    THEN Invoke(Emit(assert_param(run, decode_length(data, junk).value = 2),
                     mqtt_pubcomp_msg(Uuid23(data, junk))),
                "pubrel", <<Uuid23(data, junk)>>)
    ELSE run

process_pubcomp(run, data, len, junk) ==
    IF len >= 4
    THEN Invoke(assert_param(run, decode_length(data, junk).value = 2),
                "pubcomp", <<Uuid23(data, junk)>>)
    ELSE run

process_suback(run, data, len, junk) ==
    IF len >= 4
    THEN Invoke(assert_param(run, decode_length(data, junk).value = 3),
                "suback", <<At(data, 4, junk), Uuid23(data, junk)>>)
    ELSE run

process_unsuback(run, data, len, junk) ==
    IF len >= 4
    THEN Invoke(assert_param(run, decode_length(data, junk).value = 3),
                "unsuback", <<Uuid23(data, junk)>>)
    ELSE run

process_pingresp(run, data, len, junk) == Invoke(run, "pingresp", <<>>)

-----------------------------------------------------------------------------
(* Dispatch table and receiver task *)

funcs == <<[type |-> TYPE_CONNACK, process |-> "process_connack"],
           [type |-> TYPE_PUBLISH, process |-> "process_publish"],
           [type |-> TYPE_PUBACK, process |-> "process_puback"],
           [type |-> TYPE_PUBREC, process |-> "process_pubrec"],
           [type |-> TYPE_PUBREL, process |-> "process_pubrel"],
           [type |-> TYPE_PUBCOMP, process |-> "process_pubcomp"],
           [type |-> TYPE_SUBACK, process |-> "process_suback"],
           [type |-> TYPE_UNSUBACK, process |-> "process_unsuback"],
           [type |-> TYPE_PINGRESP, process |-> "process_pingresp"]>>

Modes == {"wifi", "cell"}

\* the entry the for loop of vMqttRecv stops at, "none" if it runs through
Dispatch(first, mode) ==
    LET hit(i) == IF mode = "wifi"
                  THEN \/ funcs[i].type = (first \div 16) * 16
                       \/ funcs[i].type = first
                  ELSE funcs[i].type = first
        hits == {i \in 1..Len(funcs) : hit(i)}
    IN  IF hits = {} THEN "none"
        ELSE funcs[CHOOSE i \in hits : \A j \in hits : i <= j].process

\* funcs[i].process(data, len)
Process(name, run, data, len, junk) ==
    CASE name = "process_connack" -> process_connack(run, data, len, junk)
      [] name = "process_publish" -> process_publish(run, data, len, junk)
      [] name = "process_puback" -> process_puback(run, data, len, junk)
      [] name = "process_pubrec" -> process_pubrec(run, data, len, junk)
      [] name = "process_pubrel" -> process_pubrel(run, data, len, junk)
      [] name = "process_pubcomp" -> process_pubcomp(run, data, len, junk)
      [] name = "process_suback" -> process_suback(run, data, len, junk)
      [] name = "process_unsuback" -> process_unsuback(run, data, len, junk)
      [] name = "process_pingresp" -> process_pingresp(run, data, len, junk)
      [] OTHER -> run

\* one round of vMqttRecv in which the transport of the current mode
\* delivers `frame`; junk is what the task's buffer holds past the frame
vMqttRecv(frame, mode, junk) ==
    /\ fault = "none"
    /\ LET handler == Dispatch(At(frame, 0, junk), mode)
           run == Process(handler,
                          [trace |-> <<>>, fault |-> "none",
                           queue |-> xSendQueue],
                          frame, Len(frame) % U8, junk)
       IN  /\ rx' = [data |-> frame, mode |-> mode, handler |-> handler,
                     trace |-> run.trace]
           /\ xSendQueue' = run.queue
           /\ fault' = run.fault
    /\ UNCHANGED <<g_driver, g_uuid, tx, ids, wire, reg, calc>>

-----------------------------------------------------------------------------
(* Sender task *)

\* the msg.size bytes the write call is given
Payload(msg) ==
    SubSeq(msg.data, 1, IF msg.size < Len(msg.data) THEN msg.size
                        ELSE Len(msg.data))

\* one round of vMqttSend: the frame is taken from the queue, the transport
\* of the current mode is asked to prepare, and the write follows only when
\* that succeeded
\* the calls one round of vMqttSend makes on the transport of `mode`
TransportCalls(mode, prepared, msg) ==
    LET prepare == IF mode = "wifi" THEN "esp8266_prepare_send"
                   ELSE "m26_prepare_send"
        write == IF mode = "wifi" THEN "esp8266_write" ELSE "m26_write"
    IN  <<[fn |-> prepare, size |-> msg.size]>>
        \o (IF prepared
            THEN <<[fn |-> write, data |-> Payload(msg), size |-> msg.size]>>
            ELSE <<>>)

\* vMqttSend trying a frame again after a failed prepare-to-send
vMqttSend_retries(mode, prepared) ==
    /\ fault = "none"
    /\ xSendQueue # <<>>
    /\ wire' = [backend |-> mode, prepared |-> prepared,
                size |-> Head(xSendQueue).size,
                written |-> IF prepared THEN Payload(Head(xSendQueue))
                            ELSE <<>>,
                calls |-> TransportCalls(mode, prepared, Head(xSendQueue))]
    /\ xSendQueue' = IF prepared THEN Tail(xSendQueue) ELSE xSendQueue
    /\ UNCHANGED <<g_driver, g_uuid, fault, rx, tx, ids, reg, calc>>

vMqttSend(mode, prepared) ==
    /\ fault = "none"
    /\ xSendQueue # <<>>
    /\ wire' = [backend |-> mode, prepared |-> prepared,
                size |-> Head(xSendQueue).size,
                written |-> IF prepared THEN Payload(Head(xSendQueue))
                            ELSE <<>>,
                calls |-> TransportCalls(mode, prepared, Head(xSendQueue))]
    /\ xSendQueue' = Tail(xSendQueue)
    /\ UNCHANGED <<g_driver, g_uuid, fault, rx, tx, ids, reg, calc>>

-----------------------------------------------------------------------------
(* Driver registry *)

init_mqtt_driver == [s \in Slots |-> "noop"]

\* refresh_driver with the suback test left out as well
refresh_driver_skips_suback(driver) ==
    [s \in Slots |->
        IF s \in {"connack", "puback", "pubrec", "pubrel", "pubcomp",
                  "unsuback", "pingresp"} /\ driver[s] = "null"
        THEN "noop"
        ELSE driver[s]]

refresh_driver(driver) ==
    [s \in Slots |->
        IF s \in {"connack", "puback", "pubrec", "pubrel", "pubcomp",
                  "suback", "unsuback", "pingresp"} /\ driver[s] = "null"
        THEN "noop"
        ELSE driver[s]]

\* a registry gives each slot an application callback or leaves it null
mqtt_attach(driver) ==
    /\ fault = "none"
    /\ g_driver' = refresh_driver([s \in Slots |-> driver[s]])
    /\ reg' = [op |-> "attach", driver |-> driver]
    /\ UNCHANGED <<g_uuid, xSendQueue, fault, rx, tx, ids, wire, calc>>

mqtt_detach ==
    /\ fault = "none"
    /\ g_driver' = init_mqtt_driver
    /\ reg' = [op |-> "detach"]
    /\ UNCHANGED <<g_uuid, xSendQueue, fault, rx, tx, ids, wire, calc>>

-----------------------------------------------------------------------------
(* Builder calls *)

\* bound on the builder calls of one run
MaxCalls == 3

\* what a store past msg.data[MQTT_MAX_MSG_SIZE - 1] can do: land in unused
\* stack, or overwrite live stack and take the firmware down
OverflowOutcomes == {"benign", "corrupt"}

\* the part common to mqtt_publish, mqtt_subscribe and mqtt_unsubscribe,
\* given what the builder writes (b): the size assertion, the identifier,
\* the copy into the queue
BuilderCall(op, args, b, outcome) ==
    /\ fault = "none"
    /\ tx.n < MaxCalls
    /\ IF ~b.ok
       THEN /\ fault' = "assert"
            /\ tx' = [n |-> tx.n + 1, op |-> op, args |-> args, built |-> b,
                      queued |-> FALSE]
            /\ UNCHANGED <<g_uuid, xSendQueue, ids>>
       ELSE /\ g_uuid' = b.uuid
            /\ ids' = IF b.id >= 0 THEN [ids EXCEPT !.seq = Append(@, b.id)]
                      ELSE ids
            /\ IF b.top >= MQTT_MAX_MSG_SIZE /\ outcome = "corrupt"
               THEN /\ fault' = "stack"
                    /\ tx' = [n |-> tx.n + 1, op |-> op, args |-> args,
                              built |-> b, queued |-> FALSE]
                    /\ UNCHANGED xSendQueue
               ELSE /\ fault' = "none"
                    /\ tx' = [n |-> tx.n + 1, op |-> op, args |-> args,
                              built |-> b,
                              queued |-> Len(xSendQueue) < MQTT_MAX_MSG_NUM]
                    /\ xSendQueue' = mqtt_send_data(xSendQueue,
                                       [size |-> b.size, data |-> b.data])
    /\ UNCHANGED <<g_driver, rx, wire, reg, calc>>

mqtt_publish(topic, content, dup, qos, retain, outcome) ==
    BuilderCall("publish",
                [topic |-> topic, content |-> content, dup |-> dup,
                 qos |-> qos, retain |-> retain],
                PublishBuild(topic, content, dup, qos, retain, g_uuid),
                outcome)

mqtt_subscribe(topic, qos, outcome) ==
    BuilderCall("subscribe", [topic |-> topic, qos |-> qos],
                SubscribeBuild(topic, qos, g_uuid), outcome)

mqtt_unsubscribe(topic, outcome) ==
    BuilderCall("unsubscribe", [topic |-> topic],
                UnsubscribeBuild(topic, g_uuid), outcome)

mqtt_connect(param, outcome) ==
    /\ fault = "none"
    /\ tx.n < MaxCalls
    /\ IF ~check_connect_param(param)
       THEN /\ fault' = "assert"
            /\ tx' = [n |-> tx.n + 1, op |-> "connect", args |-> param,
                      queued |-> FALSE]
            /\ UNCHANGED xSendQueue
       ELSE LET b == ConnectBuild(param)
            IN  IF ~b.ok
                THEN /\ fault' = "assert"
                     /\ tx' = [n |-> tx.n + 1, op |-> "connect",
                               args |-> param, built |-> b, queued |-> FALSE]
                     /\ UNCHANGED xSendQueue
                ELSE IF b.top >= MQTT_MAX_MSG_SIZE /\ outcome = "corrupt"
                THEN /\ fault' = "stack"
                     /\ tx' = [n |-> tx.n + 1, op |-> "connect",
                               args |-> param, built |-> b, queued |-> FALSE]
                     /\ UNCHANGED xSendQueue
                ELSE /\ fault' = "none"
                     /\ tx' = [n |-> tx.n + 1, op |-> "connect",
                               args |-> param, built |-> b,
                               queued |-> Len(xSendQueue) < MQTT_MAX_MSG_NUM]
                     /\ xSendQueue' = mqtt_send_data(xSendQueue,
                                        [size |-> b.size, data |-> b.data])
    /\ UNCHANGED <<g_driver, g_uuid, ids, rx, wire, reg, calc>>

-----------------------------------------------------------------------------
(* Inputs *)

\* "t" and "xy"
TopicT == <<116>>
ContentXY == <<120, 121>>

\* registries an application attaches: each slot set or left null
OnlyPublish == [s \in Slots |-> IF s = "publish" THEN "app" ELSE "null"]
AllNull == [s \in Slots |-> "null"]
AllApp == [s \in Slots |-> "app"]
OnlySlot(t) == [s \in Slots |-> IF s = t THEN "app" ELSE "null"]
AllButSlot(t) == [s \in Slots |-> IF s = t THEN "null" ELSE "app"]
RegistryRange ==
    {AllNull, AllApp, AllButSlot("publish")} \cup {OnlySlot(t) : t \in Slots}

\* an inbound PUBLISH frame as a broker sends it
PublishFrame(dup, qos, retain, topic, id, content) ==
    LET body == BE16(Len(topic)) \o topic
                \o (IF qos > 0 THEN BE16(id) ELSE <<>>) \o content
    IN  <<TYPE_PUBLISH + dup * 8 + qos * 2 + retain, Len(body)>> \o body

AckFrame(type, id) == <<type, 2, Hi8(id), Lo8(id)>>

\* the frames of the QoS 1 and QoS 2 handshakes
HandshakeFrames ==
    {PublishFrame(0, 1, 0, TopicT, 7, ContentXY),
     PublishFrame(0, 2, 0, TopicT, 9, ContentXY),
     AckFrame(TYPE_PUBREL, 9)}

\* one frame of every inbound type, and frames a handler rejects
PlainFrames ==
    {<<TYPE_CONNACK, 2, 0, 0>>,
     PublishFrame(0, 0, 0, TopicT, 0, ContentXY),
     PublishFrame(1, 0, 1, TopicT, 0, ContentXY),
     AckFrame(TYPE_PUBACK, 0),
     AckFrame(TYPE_PUBREC, 1),
     AckFrame(TYPE_PUBREL, 9),
     AckFrame(TYPE_PUBCOMP, 1),
     <<TYPE_SUBACK, 3, 0, 1, 0>>,
     <<TYPE_UNSUBACK, 3, 0, 2, 0>>,
     <<TYPE_PINGRESP, 0>>,
     <<TYPE_PUBREC, 3, 0, 1, 0>>}

JunkBytes == {0, 255}

-----------------------------------------------------------------------------
(* The engine: registry calls, receiver task and sender task *)

\* the state mqtt_init leaves
InitEngine ==
    /\ g_driver = init_mqtt_driver
    /\ g_uuid = 0
    /\ ids = [base |-> 0, seq |-> <<>>]
    /\ xSendQueue = <<>>
    /\ fault = "none"
    /\ rx = [handler |-> "idle"]
    /\ tx = [n |-> 0, op |-> "none"]
    /\ wire = [backend |-> "none"]
    /\ reg = [op |-> "init"]

Init ==
    /\ InitEngine
    /\ calc = [op |-> "none"]

Detach == mqtt_detach

\* no handler reads past the end of a handshake frame
Recv ==
    \E frame \in HandshakeFrames, mode \in Modes :
        vMqttRecv(frame, mode, 0)

Send == \E mode \in Modes, prepared \in BOOLEAN : vMqttSend(mode, prepared)

Next ==
    \/ Recv
    \/ Send

Spec == Init /\ [][Next]_vars

-----------------------------------------------------------------------------
(* The engine with every registry shape and every inbound frame type *)

AttachAny == \E driver \in RegistryRange : mqtt_attach(driver)

RecvPlain ==
    \E frame \in PlainFrames, mode \in Modes, junk \in JunkBytes :
        vMqttRecv(frame, mode, junk)

NextDispatch ==
    \/ AttachAny
    \/ Detach
    \/ RecvPlain
    \/ Send

SpecDispatch == Init /\ [][NextDispatch]_vars

-----------------------------------------------------------------------------
(* Claims about the inbound handshakes *)

\* the callback invocations and the queue writes of the last dispatch
CbEvents == {i \in 1..Len(rx.trace) : rx.trace[i].ev = "cb"}
SendEvents == {i \in 1..Len(rx.trace) : rx.trace[i].ev = "send"}
Dispatched == rx.handler \notin {"idle", "none"}

SampleIds == {7, 9}

\* C1: a dispatched inbound PUBLISH with qos=1 and identifier N invokes the
\* publish callback exactly once, with the decoded topic and payload, and
\* then places exactly one PUBACK carrying N on the outbound queue; no
\* PUBACK is enqueued before the callback.
C1_Qos1Handshake ==
    \A dup \in 0..1, retain \in 0..1, N \in SampleIds :
        (Dispatched /\ rx.data = PublishFrame(dup, 1, retain, TopicT, N, ContentXY))
        => /\ Len(rx.trace) = 2
           /\ rx.trace[1].ev = "cb"
           /\ rx.trace[1].slot = "publish"
           /\ rx.trace[1].args = <<TopicT, ContentXY, Len(ContentXY)>>
           /\ rx.trace[2].ev = "send"
           /\ rx.trace[2].msg = [size |-> 4,
                                 data |-> <<TYPE_PUBACK, 2, Hi8(N), Lo8(N)>>]
           /\ rx.trace[2].queued

\* C2: a dispatched inbound PUBLISH with qos=2 and identifier N places
\* exactly one PUBREC carrying N on the outbound queue; a dispatched inbound
\* PUBREL with identifier N places exactly one PUBCOMP carrying N on the
\* queue strictly before the pubrel callback is invoked.
C2_Qos2Handshake ==
    \A dup \in 0..1, retain \in 0..1, N \in SampleIds :
        /\ (Dispatched /\ rx.data = PublishFrame(dup, 2, retain, TopicT, N, ContentXY))
           => /\ Cardinality(SendEvents) = 1
              /\ \A i \in SendEvents :
                    /\ rx.trace[i].msg = [size |-> 4,
                                          data |-> <<TYPE_PUBREC, 2, Hi8(N), Lo8(N)>>]
                    /\ rx.trace[i].queued
        /\ (Dispatched /\ rx.data = AckFrame(TYPE_PUBREL, N))
           => /\ Len(rx.trace) = 2
              /\ rx.trace[1].ev = "send"
              /\ rx.trace[1].msg = [size |-> 4,
                                    data |-> <<TYPE_PUBCOMP, 2, Hi8(N), Lo8(N)>>]
              /\ rx.trace[1].queued
              /\ rx.trace[2].ev = "cb"
              /\ rx.trace[2].slot = "pubrel"
              /\ rx.trace[2].args = <<N>>

\* the slot that belongs to a frame whose first byte is `first`
SlotOfType(first) ==
    CASE first = TYPE_CONNACK -> "connack"
      [] first \div 16 = TYPE_PUBLISH \div 16 -> "publish"
      [] first = TYPE_PUBACK -> "puback"
      [] first = TYPE_PUBREC -> "pubrec"
      [] first = TYPE_PUBREL -> "pubrel"
      [] first = TYPE_PUBCOMP -> "pubcomp"
      [] first = TYPE_SUBACK -> "suback"
      [] first = TYPE_UNSUBACK -> "unsuback"
      [] first = TYPE_PINGRESP -> "pingresp"
      [] OTHER -> "none"

\* the first bytes of PUBLISH with qos=0 (any dup, retain), PUBACK, PUBREC,
\* PUBCOMP, SUBACK, UNSUBACK, PINGRESP and CONNACK
QuietTypes ==
    {TYPE_PUBLISH + dup * 8 + retain : dup \in 0..1, retain \in 0..1}
    \cup {TYPE_PUBACK, TYPE_PUBREC, TYPE_PUBCOMP, TYPE_SUBACK, TYPE_UNSUBACK,
          TYPE_PINGRESP, TYPE_CONNACK}

\* C3: dispatching an inbound PUBLISH with qos=0, PUBACK, PUBREC, PUBCOMP,
\* SUBACK, UNSUBACK, PINGRESP or CONNACK invokes no callback but the one of
\* that packet type, at most once, and writes nothing to the outbound queue;
\* an inbound PUBREC never enqueues a PUBREL.
C3_QuietFrames ==
    (rx.handler # "idle" /\ rx.data[1] \in QuietTypes)
    => /\ SendEvents = {}
       /\ Len(rx.trace) <= 1
       /\ \A i \in CbEvents : rx.trace[i].slot = SlotOfType(rx.data[1])

\* a PUBREC was dispatched to its callback while frames were waiting in the
\* outbound queue
C3_Witness ==
    /\ rx.handler = "process_pubrec"
    /\ rx.data = AckFrame(TYPE_PUBREC, 1)
    /\ Len(rx.trace) = 1
    /\ rx.trace[1].slot = "pubrec"
    /\ xSendQueue # <<>>

-----------------------------------------------------------------------------
(* Claims about the driver registry *)

\* the first bytes of CONNACK, PUBACK, PUBREC, PUBREL, PUBCOMP, SUBACK,
\* UNSUBACK and PINGRESP
OtherEightTypes ==
    {TYPE_CONNACK, TYPE_PUBACK, TYPE_PUBREC, TYPE_PUBREL, TYPE_PUBCOMP,
     TYPE_SUBACK, TYPE_UNSUBACK, TYPE_PINGRESP}

AttachedOnlyPublish == reg.op = "attach" /\ reg.driver = OnlyPublish

\* C9: after mqtt_attach with a registry in which only publish is set, the
\* other eight slots hold the no-op defaults and every dispatch of a
\* CONNACK, PUBACK, PUBREC, PUBREL, PUBCOMP, SUBACK, UNSUBACK or PINGRESP
\* calls a no-op callback and never a null slot; after mqtt_detach all nine
\* slots hold the no-op defaults, whatever was attached before.
C9_AttachOnlyPublish ==
    [][/\ (reg'.op = "attach" /\ reg'.driver = OnlyPublish)
          => /\ g_driver'.publish = "app"
             /\ \A s \in Slots \ {"publish"} : g_driver'[s] = "noop"
       /\ reg'.op = "detach" => \A s \in Slots : g_driver'[s] = "noop"
       /\ (AttachedOnlyPublish /\ rx' # rx /\ rx'.data[1] \in OtherEightTypes)
          => /\ fault' # "null_call"
             /\ \A i \in 1..Len(rx'.trace) :
                   rx'.trace[i].ev = "cb" => rx'.trace[i].fn = "noop"
      ]_vars

\* with only publish attached, a PUBACK was dispatched to the no-op default
C9_Witness ==
    /\ AttachedOnlyPublish
    /\ g_driver.publish = "app"
    /\ rx.handler = "process_puback"
    /\ Len(rx.trace) = 1
    /\ rx.trace[1].slot = "puback"
    /\ rx.trace[1].fn = "noop"

\* C10: after mqtt_attach(registry), every one of the nine slots that the
\* registry left null holds the no-op default, so no dispatch calls a null
\* slot.
C10_UnsetSlotsAreNoop ==
    /\ reg.op = "attach"
       => \A s \in Slots : reg.driver[s] = "null" => g_driver[s] = "noop"
    /\ fault # "null_call"

-----------------------------------------------------------------------------
(* The builders and the sender task *)

\* a topic of 122 characters: with it UNSUBSCRIBE fills all 128 bytes, and
\* SUBSCRIBE and PUBLISH exceed them
Topic122 == [i \in 1..122 |-> 97 + (i % 26)]

\* the values of g_uuid after 0 and after 65534 identifiers
UuidBases == {0, U16 - 2}

NoFlags == [clear_session |-> 1, will_flag |-> 0, will_qos |-> 0,
            will_retain |-> 0, username_flag |-> 0, password_flag |-> 0]

\* client id "c", nothing else
ConnectPlain == [client_id |-> <<99>>, will_topic |-> NULL, will_msg |-> NULL,
                 username |-> NULL, password |-> NULL, alive_time |-> 60,
                 flag |-> NoFlags]

InitBuild ==
    /\ g_driver = init_mqtt_driver
    /\ \E base \in UuidBases :
          /\ g_uuid = base % U16
          /\ ids = [base |-> base, seq |-> <<>>]
    /\ xSendQueue = <<>>
    /\ fault = "none"
    /\ rx = [handler |-> "idle"]
    /\ tx = [n |-> 0, op |-> "none"]
    /\ wire = [backend |-> "none"]
    /\ reg = [op |-> "init"]
    /\ calc = [op |-> "none"]

Publish ==
    \E qos \in 0..2, outcome \in OverflowOutcomes :
        mqtt_publish(TopicT, ContentXY, 0, qos, 0, outcome)

Subscribe ==
    \E outcome \in OverflowOutcomes : mqtt_subscribe(TopicT, 1, outcome)

Unsubscribe ==
    \E topic \in {TopicT, Topic122}, outcome \in OverflowOutcomes :
        mqtt_unsubscribe(topic, outcome)

Connect ==
    \E outcome \in OverflowOutcomes : mqtt_connect(ConnectPlain, outcome)

NextBuild ==
    \/ Publish
    \/ Subscribe
    \/ Unsubscribe
    \/ Connect
    \/ Send

SpecBuild == InitBuild /\ [][NextBuild]_vars

\* the identifier bytes of the frame the last builder call wrote
WrittenId ==
    IF tx.op = "publish"
    THEN SubSeq(tx.built.data, 5 + Len(tx.args.topic), 6 + Len(tx.args.topic))
    ELSE SubSeq(tx.built.data, 3, 4)

\* C4: over any sequence of calls to mqtt_publish with qos>0, mqtt_subscribe
\* and mqtt_unsubscribe the identifiers written are 0, 1, 2, ... modulo
\* 65536, one per call; mqtt_publish with qos=0 writes no identifier and
\* leaves the counter alone.
C4_Identifiers ==
    /\ \A i \in 1..Len(ids.seq) : ids.seq[i] = (ids.base + i - 1) % 65536
    /\ g_uuid = (ids.base + Len(ids.seq)) % 65536
    /\ (tx.op \in {"publish", "subscribe", "unsubscribe"} /\ tx.built.ok)
       => IF tx.op = "publish" /\ tx.args.qos = 0
          THEN /\ tx.built.id = -1
               /\ Len(tx.built.data) = 4 + Len(tx.args.topic)
                                       + Len(tx.args.content)
          ELSE /\ ids.seq # <<>>
               /\ tx.built.id = ids.seq[Len(ids.seq)]
               /\ WrittenId = BE16(tx.built.id)

\* the counter has wrapped: 65534, 65535 and 0 were written, the last one by
\* a publish with qos 2
C4_Witness ==
    /\ ids.seq = <<65534, 65535, 0>>
    /\ g_uuid = 1
    /\ tx.op = "publish"
    /\ tx.args.qos = 2

-----------------------------------------------------------------------------
(* The remaining-length codec on its own *)

\* lengths 0..MaxLengthProbe are tried, and the values at which a correct
\* encoding changes its number of bytes
MaxLengthProbe == 130

LengthInputs ==
    0..MaxLengthProbe
    \cup {16383, 16384, 2097151, 2097152, 2097153, 268435455, 268435456}

InitLength ==
    /\ InitEngine
    /\ \E v \in LengthInputs : calc = [op |-> "length", phase |-> "input", v |-> v]

\* encode_length(v, encode)
EncodeStep ==
    /\ calc.op = "length"
    /\ calc.phase = "input"
    /\ calc' = [op |-> "length", phase |-> "encoded", v |-> calc.v,
                enc |-> encode_length(calc.v)]
    /\ UNCHANGED <<g_driver, g_uuid, xSendQueue, fault, rx, tx, ids, wire, reg>>

\* decode_length on a frame whose bytes after the fixed header are the
\* encoder's output
DecodeStep ==
    /\ calc.op = "length"
    /\ calc.phase = "encoded"
    /\ \E junk \in JunkBytes :
          calc' = [op |-> "length", phase |-> "decoded", v |-> calc.v,
                   enc |-> calc.enc,
                   dec |-> decode_length(<<TYPE_PUBLISH>> \o calc.enc.encode,
                                         junk)]
    /\ UNCHANGED <<g_driver, g_uuid, xSendQueue, fault, rx, tx, ids, wire, reg>>

NextLength ==
    \/ EncodeStep
    \/ DecodeStep

SpecLength == InitLength /\ [][NextLength]_vars

\* the number of bytes of the base-128 encoding of v
LengthBytes(v) == IF v < 128 THEN 1 ELSE IF v < 16384 THEN 2 ELSE 3

\* C6: for every v in 0..2,097,151, decode_length applied to the output of
\* encode_length(v) returns v and a consumed-byte count equal to the number
\* of bytes encode_length produced (1 for v<128, 2 for v<16384, 3
\* otherwise), every produced byte but the last carrying the continuation
\* bit.
C6_LengthRoundTrip ==
    (calc.op = "length" /\ calc.phase = "decoded" /\ calc.v <= 2097151)
    => /\ calc.dec.value = calc.v
       /\ calc.dec.step = calc.enc.size
       /\ calc.enc.size = LengthBytes(calc.v)
       /\ Len(calc.enc.encode) = calc.enc.size
       /\ \A i \in 1..Len(calc.enc.encode) :
             (calc.enc.encode[i] >= 128) <=> (i < Len(calc.enc.encode))

\* C7: encode_length(v) reports failure, a result that is no valid encoding
\* of 1 to 4 bytes, for every v greater than 2,097,151.
C7_EncodeOverflow ==
    (calc.op = "length" /\ calc.phase # "input" /\ calc.v > 2097151)
    => calc.enc.size \notin 1..4

-----------------------------------------------------------------------------
(* PUBLISH built by mqtt_publish and handed to process_publish *)

Topic40 == [i \in 1..40 |-> 97 + (i % 26)]
Content82 == [i \in 1..82 |-> 48 + (i % 10)]
Content84 == [i \in 1..84 |-> 48 + (i % 10)]
ContentBin == <<1, 255>>

RoundTripTopics == {<<>>, TopicT, Topic40}
RoundTripContents == {<<>>, ContentXY, ContentBin, Content82, Content84}

PublishOnce ==
    /\ tx.n = 0
    /\ \E topic \in RoundTripTopics, content \in RoundTripContents,
          dup \in 0..1, qos \in 0..2, retain \in 0..1,
          outcome \in OverflowOutcomes :
          mqtt_publish(topic, content, dup, qos, retain, outcome)

\* process_publish(msg.data, msg.size) on the frame mqtt_publish built
DecodeBuilt ==
    /\ fault = "none"
    /\ tx.op = "publish"
    /\ tx.queued
    /\ rx.handler = "idle"
    /\ \E junk \in JunkBytes :
          LET msg == [size |-> tx.built.size, data |-> tx.built.data]
              run == process_publish([trace |-> <<>>, fault |-> "none",
                                      queue |-> xSendQueue],
                                     Payload(msg), msg.size, junk)
          IN  /\ rx' = [data |-> Payload(msg), mode |-> "direct",
                        handler |-> "process_publish", trace |-> run.trace,
                        fields |-> PublishFields(Payload(msg), msg.size, junk)]
              /\ xSendQueue' = run.queue
              /\ fault' = run.fault
    /\ UNCHANGED <<g_driver, g_uuid, tx, ids, wire, reg, calc>>

NextRoundTrip ==
    \/ PublishOnce
    \/ DecodeBuilt

SpecRoundTrip == InitBuild /\ [][NextRoundTrip]_vars

\* what process_publish computes from the frame mqtt_publish builds for the
\* same arguments with the retain flag inverted
FieldsWithOtherRetain ==
    LET a == tx.args
        b == PublishBuild(a.topic, a.content, a.dup, a.qos, 1 - a.retain,
                          IF a.qos # 0 THEN tx.built.id ELSE g_uuid)
    IN  PublishFields(b.data, b.size, 0)

\* C5: for every topic of at most 40 characters, every payload, qos in
\* {0,1,2}, dup and retain in {0,1} whose frame fits in 128 bytes, the
\* inbound PUBLISH handler applied to the frame built by mqtt_publish
\* recovers the topic, the payload bytes and length, qos, dup, retain and
\* (if qos>0) the identifier the builder used.
C5_PublishRoundTrip ==
    (rx.handler = "process_publish" /\ rx.mode = "direct"
        /\ Len(tx.args.topic) <= 40)
    => /\ rx.fields.topic = tx.args.topic
       /\ rx.fields.content = tx.args.content
       /\ rx.fields.content_len = Len(tx.args.content)
       /\ rx.trace[1].args = <<tx.args.topic, tx.args.content,
                               Len(tx.args.content)>>
       /\ rx.fields.qos = tx.args.qos
       /\ rx.fields.dup = tx.args.dup
       /\ tx.args.qos > 0 => rx.fields.id = tx.built.id
       \* the retain flag can be told from what the handler computed
       /\ rx.fields # FieldsWithOtherRetain

-----------------------------------------------------------------------------
(* CONNECT *)

ConnectParams ==
    {[client_id |-> client, alive_time |-> 60,
      will_topic |-> IF will = 1 THEN <<119>> ELSE NULL,
      will_msg |-> IF will = 1 THEN <<109, 115, 103>> ELSE NULL,
      username |-> IF user = 1 THEN <<117>> ELSE NULL,
      password |-> IF pass = 1 THEN <<112, 119>> ELSE NULL,
      flag |-> [clear_session |-> clear, will_flag |-> will, will_qos |-> will,
                will_retain |-> 0, username_flag |-> user,
                password_flag |-> pass]] :
        client \in {NULL, <<99>>, <<99, 108, 105>>}, clear \in 0..1,
        will \in 0..1, user \in 0..1, pass \in 0..1}

\* a will of "w"/"msg" with the will flag set
WithWill == [ConnectPlain EXCEPT !.will_topic = <<119>>,
                                 !.will_msg = <<109, 115, 103>>,
                                 !.flag.will_flag = 1]

\* parameters that break one precondition each
ConnectViolations ==
    {[ConnectPlain EXCEPT !.flag.will_qos = 1],
     [ConnectPlain EXCEPT !.flag.will_retain = 1],
     [WithWill EXCEPT !.flag.will_qos = 3],
     [WithWill EXCEPT !.will_topic = NULL],
     [WithWill EXCEPT !.will_msg = NULL],
     [ConnectPlain EXCEPT !.flag.username_flag = 1],
     [ConnectPlain EXCEPT !.flag.password_flag = 1],
     [ConnectPlain EXCEPT !.flag.password_flag = 1, !.username = <<117>>]}

User111 == [i \in 1..111 |-> 97 + (i % 26)]
User114 == [i \in 1..114 |-> 97 + (i % 26)]

\* parameters whose frame is as long as the buffer, or longer
ConnectLong ==
    {[ConnectPlain EXCEPT !.username = User111, !.flag.username_flag = 1],
     [ConnectPlain EXCEPT !.username = User114, !.flag.username_flag = 1],
     [ConnectPlain EXCEPT !.client_id = NULL, !.username = User114,
                          !.flag.username_flag = 1]}

ConnectOnce ==
    /\ tx.n = 0
    /\ \E param \in ConnectParams \cup ConnectViolations \cup ConnectLong,
          outcome \in OverflowOutcomes :
          mqtt_connect(param, outcome)

NextConnect ==
    \/ ConnectOnce
    \/ Send

SpecConnect == InitBuild /\ [][NextConnect]_vars

\* C8: for every combination of client id, will, username and password
\* present or absent that passes the parameter check, the payload length
\* computed by calculate_connect_payload_len equals the number of bytes
\* mqtt_connect writes after the remaining-length field.
C8_ConnectPayloadLen ==
    (tx.op = "connect" /\ check_connect_param(tx.args))
    => tx.built.payload_len
       = Len(tx.built.data) - 1 - tx.built.encode_len

-----------------------------------------------------------------------------
(* Claims about the frames the builders write *)

\* C11: mqtt_unsubscribe(topic) enqueues a frame whose fixed header byte is
\* 0xa2, followed by the remaining length len(topic)+4, the 2-byte
\* big-endian packet identifier, and the topic prefixed by its 2-byte
\* big-endian length.
C11_UnsubscribeFrame ==
    (tx.op = "unsubscribe" /\ tx.built.ok /\ fault = "none")
    => /\ tx.queued
       /\ tx.built.data = <<TYPE_UNSUBSCRIBE, Len(tx.args.topic) + 4>>
                          \o BE16(tx.built.id)
                          \o BE16(Len(tx.args.topic)) \o tx.args.topic

-----------------------------------------------------------------------------
(* Builder calls, receiver-generated acknowledgments and the sender task     *)
(* sharing the outbound queue                                                *)

\* the acknowledgment builders of the engine
AckBuilders == {"mqtt_puback", "mqtt_pubrec", "mqtt_pubcomp"}

AckBuilt(builder, id) ==
    CASE builder = "mqtt_puback" -> mqtt_puback_msg(id)
      [] builder = "mqtt_pubrec" -> mqtt_pubrec_msg(id)
      [] builder = "mqtt_pubcomp" -> mqtt_pubcomp_msg(id)

\* a call of mqtt_puback(id), mqtt_pubrec(id) or mqtt_pubcomp(id)
AckCall(builder, id) ==
    /\ fault = "none"
    /\ tx.n < MaxCalls
    /\ tx' = [n |-> tx.n + 1, op |-> builder, args |-> [id |-> id],
              built |-> AckBuilt(builder, id),
              queued |-> Len(xSendQueue) < MQTT_MAX_MSG_NUM]
    /\ xSendQueue' = mqtt_send_data(xSendQueue, AckBuilt(builder, id))
    /\ UNCHANGED <<g_driver, g_uuid, fault, rx, ids, wire, reg, calc>>

\* with it SUBSCRIBE fills all 128 bytes
Topic121 == [i \in 1..121 |-> 97 + (i % 26)]

\* the broker delivers a QoS 1 PUBLISH, which the receiver acknowledges
RecvPublish ==
    \E mode \in Modes :
        vMqttRecv(PublishFrame(0, 1, 0, TopicT, 7, ContentXY), mode, 0)

SubscribeOnce ==
    /\ tx.n = 0
    /\ \E topic \in {TopicT, Topic121}, qos \in 0..2,
          outcome \in OverflowOutcomes :
          mqtt_subscribe(topic, qos, outcome)

AckOnce ==
    /\ tx.n = 0
    /\ \E builder \in AckBuilders, id \in SampleIds : AckCall(builder, id)

NextCalls ==
    \/ RecvPublish
    \/ SubscribeOnce
    \/ AckOnce
    \/ Send

SpecCalls == InitBuild /\ [][NextCalls]_vars

\* C12: mqtt_subscribe(topic, qos) with the identifier generator at g
\* enqueues exactly the bytes 0x82, remaining length = len(topic)+5, g as
\* two big-endian bytes, len(topic) as two big-endian bytes, the topic bytes
\* and one requested-qos byte; the frame size is remaining length + 2.
C12_SubscribeFrame ==
    (tx.op = "subscribe" /\ tx.built.ok /\ fault = "none")
    => /\ tx.built.data = <<TYPE_SUBSCRIBE, Len(tx.args.topic) + 5>>
                          \o BE16(ids.base)
                          \o BE16(Len(tx.args.topic)) \o tx.args.topic
                          \o <<tx.args.qos>>
       /\ tx.built.size = Len(tx.args.topic) + 5 + 2
       /\ tx.queued

AckTypes == {TYPE_PUBACK, TYPE_PUBREC, TYPE_PUBREL, TYPE_PUBCOMP}

\* C13: for each of PUBACK, PUBREC, PUBREL and PUBCOMP the engine provides a
\* builder that, given identifier N, enqueues a 4-byte frame consisting of
\* the type byte (0x40, 0x50, 0x62, 0x70 respectively), the remaining length
\* 0x02, and N as two big-endian bytes.
C13_AckBuilders ==
    tx.op \in AckBuilders
    => /\ tx.built.size = 4
       /\ Len(tx.built.data) = 4
       /\ tx.built.data[1] \in AckTypes
       /\ SubSeq(tx.built.data, 2, 4)
          = <<2, Hi8(tx.args.id), Lo8(tx.args.id)>>
       /\ tx.queued
       \* each of the four types has its builder
       /\ \A type \in AckTypes :
             \E builder \in AckBuilders :
                AckBuilt(builder, tx.args.id)
                = [size |-> 4,
                   data |-> <<type, 2, Hi8(tx.args.id), Lo8(tx.args.id)>>]

\* C14: frames are handed to the transport by the sender task in exactly the
\* order in which they were placed on the outbound queue: every enqueue
\* leaves the frames already waiting in place, in their order, and every
\* round of the sender takes the oldest frame and passes that frame to
\* prepare-send and write, under any interleaving of builder calls,
\* receiver-generated acknowledgments and the sender task.
C14_FifoOrder ==
    [][/\ Len(xSendQueue') < Len(xSendQueue)
          => /\ xSendQueue' = Tail(xSendQueue)
             /\ wire'.size = Head(xSendQueue).size
             /\ wire'.prepared => wire'.written = Payload(Head(xSendQueue))
       /\ Len(xSendQueue') >= Len(xSendQueue)
          => SubSeq(xSendQueue', 1, Len(xSendQueue)) = xSendQueue
      ]_vars

\* a SUBSCRIBE built by the application was written to the transport while
\* acknowledgments the receiver enqueued are still waiting
C14_Witness ==
    /\ tx.op = "subscribe"
    /\ wire.backend # "none"
    /\ wire.prepared
    /\ wire.written = tx.built.data
    /\ rx.handler = "process_publish"
    /\ Len(xSendQueue) >= 2

-----------------------------------------------------------------------------
(* The receiver task fed short, malformed and oddly typed frames *)

\* frames of fewer than 4 bytes, one or more of every inbound type
ShortFrames ==
    {<<TYPE_CONNACK, 2, 0>>,
     <<TYPE_PUBLISH, 1, 0>>,
     <<TYPE_PUBLISH + 2, 1, 0>>,
     <<TYPE_PUBACK, 2, 0>>,
     <<TYPE_PUBREC, 2>>,
     <<TYPE_PUBREL, 2, 0>>,
     <<TYPE_PUBCOMP>>,
     <<TYPE_SUBACK, 3, 0>>,
     <<TYPE_UNSUBACK, 3, 0>>,
     <<TYPE_PINGRESP, 0>>,
     <<TYPE_PINGRESP>>}

\* acknowledgments whose remaining length is not the expected one, a length
\* field of four continuation bytes, and a PUBLISH cut inside its topic
MalformedFrames ==
    {<<TYPE_CONNACK, 3, 0, 0, 0>>,
     <<TYPE_PUBACK, 1, 0, 7>>,
     <<TYPE_PUBCOMP, 3, 0, 9, 0>>,
     <<TYPE_SUBACK, 2, 0, 1>>,
     <<TYPE_SUBACK, 3, 0, 1>>,
     <<TYPE_UNSUBACK, 2, 0, 2>>,
     <<TYPE_PUBREL, 255, 255, 255, 255, 0, 9>>,
     <<TYPE_PUBLISH, 255, 255, 255, 255, 0>>,
     <<TYPE_PUBLISH, 9, 0, 5, 116>>}

\* well-formed frames behind a first byte that is a type constant with other
\* low bits, or the type of a packet only a client sends
OddTypeFrames ==
    {<<33, 2, 0, 0>>,
     <<79, 2, 0, 1>>,
     <<96, 2, 0, 9>>,
     <<149, 3, 0, 1, 0>>,
     <<TYPE_CONNECT, 2, 0, 0>>,
     <<TYPE_PINGREQ, 0>>,
     <<TYPE_DISCONNECT, 0, 0, 0>>}

\* PUBLISH with each kind of flag nibble, and well-formed frames of the
\* types that enqueue nothing
TypedFrames ==
    {PublishFrame(0, 0, 0, TopicT, 0, ContentXY),
     PublishFrame(0, 0, 1, TopicT, 0, ContentXY),
     PublishFrame(0, 1, 0, TopicT, 7, ContentXY),
     PublishFrame(1, 1, 1, TopicT, 7, ContentXY),
     PublishFrame(1, 3, 1, TopicT, 7, ContentXY),
     <<TYPE_CONNACK, 2, 0, 0>>,
     AckFrame(TYPE_PUBACK, 7),
     AckFrame(TYPE_PUBREC, 7),
     AckFrame(TYPE_PUBCOMP, 9),
     <<TYPE_SUBACK, 3, 0, 1, 0>>,
     <<TYPE_UNSUBACK, 3, 0, 2, 0>>}

ProbeFrames == ShortFrames \cup MalformedFrames \cup OddTypeFrames
               \cup TypedFrames

RecvProbe ==
    \E frame \in ProbeFrames, mode \in Modes, junk \in JunkBytes :
        vMqttRecv(frame, mode, junk)

NextInbound == RecvProbe

SpecInbound == Init /\ [][NextInbound]_vars

\* C15 as stated: for every inbound frame whose received length is less
\* than 4 bytes, whatever its type byte, dispatch invokes no driver callback
\* and enqueues no outbound frame.
C15_ShortFramesIgnored ==
    (rx.handler # "idle" /\ Len(rx.data) < 4) => rx.trace = <<>>

\* C15: for every inbound frame whose received length is less than 4 bytes,
\* dispatch enqueues no outbound frame and invokes no driver callback,
\* except for a frame dispatched to the PINGRESP handler, which invokes the
\* pingresp callback once whatever the length.
C15_ShortFramesButPingresp ==
    (rx.handler # "idle" /\ Len(rx.data) < 4)
    => /\ SendEvents = {}
       /\ IF rx.handler = "process_pingresp"
          THEN /\ Len(rx.trace) = 1
               /\ rx.trace[1].slot = "pingresp"
          ELSE rx.trace = <<>>

\* a CONNACK of three bytes reached its handler, which did nothing
C15_Witness ==
    /\ rx.handler = "process_connack"
    /\ rx.data = <<TYPE_CONNACK, 2, 0>>
    /\ rx.trace = <<>>
    /\ fault = "none"

\* C16: for every inbound byte sequence delivered by the transport
\* (acknowledgments whose remaining length is not the expected 2 or 3,
\* frames with an overflowing length field and frames with truncated fields
\* included) dispatch returns and the receiver task proceeds to its next
\* loop iteration; no inbound frame puts the receiver into a fatal or halted
\* state.
C16_ReceiverSurvives ==
    rx.handler # "idle" => fault = "none"

PublishBytes == 48..63

\* C19: in either transport mode, every inbound frame whose first byte lies
\* in 0x30..0x3F is dispatched to the PUBLISH handler.
C19_PublishAnyFlags ==
    (rx.handler # "idle" /\ rx.data[1] \in PublishBytes)
    => rx.handler = "process_publish"

\* C20: in either transport mode, an inbound frame whose first byte is not
\* in 0x30..0x3F is dispatched to a handler only if that byte is exactly
\* equal to the handler's type constant; a first byte that shares only the
\* high nibble with a constant is dispatched to no handler.
C20_ExactTypeMatch ==
    (rx.handler \notin {"idle", "none"} /\ rx.data[1] \notin PublishBytes)
    => \E i \in 1..Len(funcs) :
          /\ funcs[i].process = rx.handler
          /\ funcs[i].type = rx.data[1]

-----------------------------------------------------------------------------
(* Claims about the preconditions and the size check of the builders *)

\* the preconditions of the data model on a connect_param
ConnectPreconditions(p) ==
    /\ p.client_id = NULL => p.flag.clear_session = 1
    /\ p.flag.will_flag = 0 => (p.flag.will_qos = 0 /\ p.flag.will_retain = 0)
    /\ p.flag.will_flag = 1 => /\ p.flag.will_qos < 3
                               /\ p.will_topic # NULL
                               /\ p.will_msg # NULL
    /\ p.flag.username_flag = 1 => p.username # NULL
    /\ p.flag.password_flag = 1 => p.password # NULL

\* C17: mqtt_connect enqueues a CONNECT frame only when its parameters
\* satisfy the preconditions of the data model (client id absent implies
\* clean-session set; will flag clear implies will-qos = 0 and will-retain
\* = 0; will flag set implies will-qos < 3 and will topic and will message
\* present; username flag set implies username present; password flag set
\* implies password present); any violation is a fatal precondition failure
\* and nothing is enqueued.
C17_ConnectPreconditions ==
    tx.op = "connect"
    => /\ tx.queued => ConnectPreconditions(tx.args)
       /\ ~ConnectPreconditions(tx.args)
          => /\ fault = "assert"
             /\ ~tx.queued
             /\ xSendQueue = <<>>
             /\ wire.backend = "none"

\* mqtt_connect was called with the password flag set and no password, and
\* stopped in the precondition check
C17_Witness ==
    /\ tx.op = "connect"
    /\ tx.args.flag.password_flag = 1
    /\ tx.args.password = NULL
    /\ fault = "assert"
    /\ xSendQueue = <<>>

\* size = 1 + number of remaining-length bytes + remaining length, <= 128
FrameSizeOk(msg) ==
    LET dl == decode_length(msg.data, 0)
    IN  /\ msg.size = 1 + dl.step + dl.value
        /\ msg.size <= MQTT_MAX_MSG_SIZE

\* C18: every frame placed on the outbound queue by any builder has size =
\* 1 (fixed header) + number of remaining-length bytes + remaining length,
\* and size <= 128; a builder call whose encoded length (header, length
\* field and the payload it writes) would exceed 128 bytes is a fatal
\* contract violation and enqueues nothing.
C18_FrameSize ==
    /\ \A i \in 1..Len(xSendQueue) : FrameSizeOk(xSendQueue[i])
    /\ (tx.op # "none" /\ "built" \in DOMAIN tx
           /\ Len(tx.built.data) > MQTT_MAX_MSG_SIZE)
       => /\ fault = "assert"
          /\ ~tx.queued

-----------------------------------------------------------------------------
(* The WiFi backend between the serial port and the receiver task            *)
(* (esp8266.c): the response task cuts the payload of every "+IPD,id,n:"     *)
(* into tcp_node records, esp8266_recv hands the receiver one node a call    *)

ESP_MAX_NODE_NUM == 6
ESP_MAX_MSG_SIZE_PER_LINE == 64

\* bound on the TCP payloads of one run
MaxPayloads == 3

RECURSIVE Flatten(_)
Flatten(packets) ==
    IF packets = <<>> THEN <<>> ELSE Head(packets) \o Flatten(Tail(packets))

\* the offsets of a payload at which one of its control packets begins
RECURSIVE PacketStarts(_, _)
PacketStarts(packets, off) ==
    IF packets = <<>> THEN {}
    ELSE {off} \cup PacketStarts(Tail(packets), off + Len(Head(packets)))

\* mode_tcp_data of vESP8266Response: a node is queued when the payload
\* ends, and whenever node_size reaches ESP_MAX_MSG_SIZE_PER_LINE before.
\* `off` (where the node begins in the payload) is kept for the claims.
RECURSIVE TcpNodes(_, _)
TcpNodes(bytes, off) ==
    IF Len(bytes) <= ESP_MAX_MSG_SIZE_PER_LINE
    THEN <<[id |-> 0, size |-> Len(bytes), data |-> bytes, off |-> off]>>
    ELSE <<[id |-> 0, size |-> ESP_MAX_MSG_SIZE_PER_LINE,
            data |-> SubSeq(bytes, 1, ESP_MAX_MSG_SIZE_PER_LINE),
            off |-> off]>>
         \o TcpNodes(SubSeq(bytes, ESP_MAX_MSG_SIZE_PER_LINE + 1, Len(bytes)),
                     off + ESP_MAX_MSG_SIZE_PER_LINE)

\* xQueueSend(xTcpQueue, &node, 0), node after node: a node that finds the
\* queue full is dropped
RECURSIVE process_tcp_data(_, _)
process_tcp_data(queue, nodes) ==
    IF nodes = <<>> THEN queue
    ELSE process_tcp_data(IF Len(queue) < ESP_MAX_NODE_NUM * 2
                          THEN Append(queue, Head(nodes)) ELSE queue,
                          Tail(nodes))

\* the response task reads "+IPD,0,n:" and the n bytes of a payload that
\* carries the given control packets.  calc holds xTcpQueue.
vESP8266Response(packets) ==
    /\ fault = "none"
    /\ calc.op = "wifi"
    /\ calc.n < MaxPayloads
    /\ LET nodes == TcpNodes(Flatten(packets), 0)
           marked == [i \in 1..Len(nodes) |->
                        [id |-> nodes[i].id, size |-> nodes[i].size,
                         data |-> nodes[i].data,
                         starts |-> nodes[i].off \in PacketStarts(packets, 0)]]
       IN  calc' = [op |-> "wifi", n |-> calc.n + 1,
                    xTcpQueue |-> process_tcp_data(calc.xTcpQueue, marked)]
    /\ UNCHANGED <<g_driver, g_uuid, xSendQueue, fault, rx, tx, ids, wire, reg>>

\* one round of vMqttRecv in WiFi mode: esp8266_recv copies the oldest node
\* into the task's buffer and the dispatch loop runs on it
vMqttRecvWifi(junk) ==
    /\ fault = "none"
    /\ calc.op = "wifi"
    /\ calc.xTcpQueue # <<>>
    /\ LET node == Head(calc.xTcpQueue)
           frame == node.data
           handler == Dispatch(At(frame, 0, junk), "wifi")
           run == Process(handler,
                          [trace |-> <<>>, fault |-> "none",
                           queue |-> xSendQueue],
                          frame, node.size % U8, junk)
       IN  /\ rx' = [data |-> frame, mode |-> "wifi", handler |-> handler,
                     trace |-> run.trace, starts |-> node.starts]
           /\ xSendQueue' = run.queue
           /\ fault' = run.fault
    /\ calc' = [calc EXCEPT !.xTcpQueue = Tail(@)]
    /\ UNCHANGED <<g_driver, g_uuid, tx, ids, wire, reg>>

\* a PUBLISH of 70 bytes: topic "t", 65 bytes of content
Content65 == [i \in 1..65 |-> 120]

\* what a broker sends in one TCP segment
TcpPayloads ==
    {<<AckFrame(TYPE_PUBACK, 7)>>,
     <<<<TYPE_PINGRESP, 0>>>>,
     <<PublishFrame(0, 0, 0, TopicT, 0, ContentXY)>>,
     <<AckFrame(TYPE_PUBACK, 7), AckFrame(TYPE_PUBCOMP, 9)>>,
     <<<<TYPE_SUBACK, 3, 0, 1, 0>>,
       PublishFrame(0, 0, 0, TopicT, 0, ContentXY)>>,
     <<PublishFrame(0, 0, 0, TopicT, 0, Content65)>>}

InitWifi ==
    /\ InitEngine
    /\ calc = [op |-> "wifi", n |-> 0, xTcpQueue |-> <<>>]

Response == \E packets \in TcpPayloads : vESP8266Response(packets)

RecvWifi == \E junk \in JunkBytes : vMqttRecvWifi(junk)

NextWifi ==
    \/ Response
    \/ RecvWifi

SpecWifi == InitWifi /\ [][NextWifi]_vars

\* C21: every frame the receiver passes to the dispatch table is exactly
\* one complete control packet: its length equals 1 + number of
\* remaining-length bytes + remaining length and it starts at a fixed-header
\* byte, for every TCP payload the WiFi backend can deliver, a control
\* packet longer than 64 bytes and a TCP payload carrying several control
\* packets included.
C21_OnePacketPerFrame ==
    (rx.handler # "idle" /\ "starts" \in DOMAIN rx)
    => /\ rx.starts
       /\ Len(rx.data) = 1 + decode_length(rx.data, 0).step
                           + decode_length(rx.data, 0).value

-----------------------------------------------------------------------------
(* Claims about the sender task *)

PrepareOf(mode) == IF mode = "wifi" THEN "esp8266_prepare_send"
                   ELSE "m26_prepare_send"
WriteOf(mode) == IF mode = "wifi" THEN "esp8266_write" ELSE "m26_write"

\* C22: for every frame the sender task dequeues, it reads the transport
\* mode once, issues exactly one prepare-to-send on that mode's backend,
\* issues the write on the same backend only if prepare-to-send succeeded,
\* and never retries or re-enqueues the frame whatever the outcome, so each
\* enqueued frame is written to a transport at most once.
C22_SendOnce ==
    [][(wire' # wire \/ Len(xSendQueue') < Len(xSendQueue))
       => /\ xSendQueue # <<>>
          /\ xSendQueue' = Tail(xSendQueue)
          /\ wire'.backend \in Modes
          /\ wire'.calls[1] = [fn |-> PrepareOf(wire'.backend),
                               size |-> Head(xSendQueue).size]
          /\ IF wire'.prepared
             THEN /\ Len(wire'.calls) = 2
                  /\ wire'.calls[2] = [fn |-> WriteOf(wire'.backend),
                                       data |-> Payload(Head(xSendQueue)),
                                       size |-> Head(xSendQueue).size]
             ELSE Len(wire'.calls) = 1
      ]_vars

\* the SUBSCRIBE of the application was dequeued in cellular mode, the
\* prepare-to-send failed, and the frame is gone
C22_Witness ==
    /\ tx.op = "subscribe"
    /\ tx.queued
    /\ wire.backend = "cell"
    /\ ~wire.prepared
    /\ wire.size = tx.built.size
    /\ Len(wire.calls) = 1
    /\ xSendQueue = <<>>

-----------------------------------------------------------------------------
(* decode_length on arbitrary length fields *)

\* the length fields tried hold up to MaxLengthBytes bytes
MaxLengthBytes == 5

LengthByteSamples == {0, 1, 127, 128, 255}

RECURSIVE SeqsUpTo(_, _)
SeqsUpTo(S, n) ==
    IF n = 0 THEN {<<>>}
    ELSE LET shorter == SeqsUpTo(S, n - 1)
         IN  shorter \cup {Append(q, x) : q \in {r \in shorter : Len(r) = n - 1},
                                          x \in S}

InitDecode ==
    /\ InitEngine
    /\ \E bytes \in SeqsUpTo(LengthByteSamples, MaxLengthBytes) :
          calc = [op |-> "decode", phase |-> "input", bytes |-> bytes]

\* decode_length on a buffer that received a PUBACK type byte and `bytes`
DecodeBytes ==
    /\ calc.op = "decode"
    /\ calc.phase = "input"
    /\ \E junk \in JunkBytes :
          calc' = [op |-> "decode", phase |-> "decoded", bytes |-> calc.bytes,
                   junk |-> junk,
                   dec |-> decode_length(<<TYPE_PUBACK>> \o calc.bytes, junk)]
    /\ UNCHANGED <<g_driver, g_uuid, xSendQueue, fault, rx, tx, ids, wire, reg>>

NextDecode == DecodeBytes

SpecDecode == InitDecode /\ [][NextDecode]_vars

\* the i-th length byte the buffer holds
LengthByte(i) == IF i <= Len(calc.bytes) THEN calc.bytes[i] ELSE calc.junk

RECURSIVE Base128(_)
Base128(n) ==
    IF n = 0 THEN 0
    ELSE Base128(n - 1) + (LengthByte(n) % 128) * 128 ^ (n - 1)

\* C23: for any inbound byte sequence, decode_length reads at most 4 length
\* bytes and terminates; it returns the sentinel 0xFFFFFFFF exactly when the
\* first three length bytes all have the continuation bit set, and
\* otherwise returns the base-128 value of the 1 to 3 bytes read, which is
\* at most 2,097,151, so the sentinel never coincides with a valid value.
C23_DecodeLength ==
    (calc.op = "decode" /\ calc.phase = "decoded")
    => /\ calc.dec.step \in 1..4
       /\ calc.dec.value = LEN_OVERFLOW
          <=> \A i \in 1..3 : LengthByte(i) >= 128
       /\ calc.dec.value # LEN_OVERFLOW
          => /\ calc.dec.step <= 3
             /\ LengthByte(calc.dec.step) < 128
             /\ \A i \in 1..(calc.dec.step - 1) : LengthByte(i) >= 128
             /\ calc.dec.value = Base128(calc.dec.step)
             /\ calc.dec.value \in 0..2097151

\* three continuation bytes and a fourth byte were read, and the sentinel
\* came back
C23_Witness ==
    /\ calc.op = "decode"
    /\ calc.phase = "decoded"
    /\ calc.bytes = <<128, 255, 128, 1>>
    /\ calc.dec = [value |-> LEN_OVERFLOW, step |-> 4]

-----------------------------------------------------------------------------
(* mqtt_publish and mqtt_subscribe with every kind of qos argument *)

\* values of the uint8_t qos parameter
QosValues == {0, 1, 2, 3, 4, 255}

PublishAnyQos ==
    /\ tx.n = 0
    /\ \E dup \in 0..1, qos \in QosValues, outcome \in OverflowOutcomes :
          mqtt_publish(TopicT, ContentXY, dup, qos, 0, outcome)

SubscribeAnyQos ==
    /\ tx.n = 0
    /\ \E qos \in QosValues, outcome \in OverflowOutcomes :
          mqtt_subscribe(TopicT, qos, outcome)

NextQos ==
    \/ PublishAnyQos
    \/ SubscribeAnyQos
    \/ Send

SpecQos == InitBuild /\ [][NextQos]_vars

\* C24: every PUBLISH frame placed on the outbound queue has qos bits (bits
\* 2..1 of the fixed header byte) equal to 0, 1 or 2, never 3, and every
\* SUBSCRIBE frame's requested-qos byte is 0, 1 or 2, for every argument
\* value that mqtt_publish and mqtt_subscribe accept without a fatal
\* precondition failure.
C24_QosRange ==
    \A i \in 1..Len(xSendQueue) :
        LET msg == xSendQueue[i]
        IN  /\ msg.data[1] \div 16 = TYPE_PUBLISH \div 16
               => (msg.data[1] \div 2) % 4 \in 0..2
            /\ msg.data[1] = TYPE_SUBSCRIBE
               => msg.data[msg.size] \in 0..2

-----------------------------------------------------------------------------
(* Claims about the outbound queue under load *)

\* C25: a frame handed to mqtt_send_data is never silently lost: whenever a
\* builder (application call or receiver-generated PUBACK/PUBREC/PUBCOMP)
\* returns, its frame is on the outbound queue or has already been dequeued
\* by the sender, even if the queue held 6 frames when the builder ran and
\* the sender was blocked in a transport call.
C25_NoSilentLoss ==
    /\ (tx.op # "none" /\ fault = "none") => tx.queued
    /\ rx.handler # "idle"
       => \A i \in 1..Len(rx.trace) :
             rx.trace[i].ev = "send" => rx.trace[i].queued

-----------------------------------------------------------------------------
(* mqtt_init step by step, with the tasks it creates *)

\* the state at the entry of mqtt_init: g_driver is a static object, all of
\* its slots are null pointers; reg holds the position of mqtt_init
InitStartup ==
    /\ g_driver = [s \in Slots |-> "null"]
    /\ g_uuid = 0
    /\ ids = [base |-> 0, seq |-> <<>>]
    /\ xSendQueue = <<>>
    /\ fault = "none"
    /\ rx = [handler |-> "idle"]
    /\ tx = [n |-> 0, op |-> "none"]
    /\ wire = [backend |-> "none"]
    /\ reg = [op |-> "mqtt_init", pc |-> "xQueueCreate"]
    /\ calc = [op |-> "none"]

\* xSendMutex, xSendQueue and the two xTaskCreate calls
mqtt_init_tasks ==
    /\ reg = [op |-> "mqtt_init", pc |-> "xQueueCreate"]
    /\ reg' = [op |-> "mqtt_init", pc |-> "init_mqtt_driver"]
    /\ UNCHANGED <<g_driver, g_uuid, xSendQueue, fault, rx, tx, ids, wire, calc>>

\* init_mqtt_driver(); return TRUE
mqtt_init_driver ==
    /\ fault = "none"
    /\ reg = [op |-> "mqtt_init", pc |-> "init_mqtt_driver"]
    /\ g_driver' = init_mqtt_driver
    /\ reg' = [op |-> "init"]
    /\ UNCHANGED <<g_uuid, xSendQueue, fault, rx, tx, ids, wire, calc>>

\* the tasks exist from the xTaskCreate calls on
TasksCreated == reg # [op |-> "mqtt_init", pc |-> "xQueueCreate"]

RecvStartup ==
    /\ TasksCreated
    /\ \E frame \in PlainFrames, mode \in Modes, junk \in JunkBytes :
          vMqttRecv(frame, mode, junk)

SendStartup ==
    /\ TasksCreated
    /\ Send

NextStartup ==
    \/ mqtt_init_tasks
    \/ mqtt_init_driver
    \/ RecvStartup
    \/ SendStartup

SpecStartup == InitStartup /\ [][NextStartup]_vars

\* C26: in every interleaving of mqtt_init with the receiver task it
\* creates, the nine driver-registry slots hold the no-op defaults before
\* the receiver dispatches its first inbound frame; no handler can invoke a
\* slot that mqtt_init has not yet initialised.
C26_DriverReadyBeforeDispatch ==
    /\ fault # "null_call"
    /\ rx.handler # "idle"
       => \A i \in CbEvents : rx.trace[i].fn = "noop"

-----------------------------------------------------------------------------
(* Claims about the bounds of the frame buffer *)

\* C27: no builder (mqtt_connect, mqtt_publish, mqtt_subscribe,
\* mqtt_unsubscribe) writes a byte at an offset >= 128 of its frame buffer,
\* for every argument set that passes the size check (1 + length-field
\* bytes + remaining length <= 128), frames of exactly 128 bytes and the
\* terminating NUL that the string copies append included.
C27_BuilderStaysInBuffer ==
    /\ fault # "stack"
    /\ (tx.op \in {"connect", "publish", "subscribe", "unsubscribe"}
           /\ "built" \in DOMAIN tx /\ tx.built.ok)
       => tx.built.top < MQTT_MAX_MSG_SIZE

-----------------------------------------------------------------------------
(* Claims about what the inbound handlers read *)

\* the publish callback was invoked for a frame of at least 4 bytes
PublishDelivered ==
    /\ rx.handler = "process_publish"
    /\ Len(rx.data) >= 4
    /\ rx.trace # <<>>
    /\ rx.trace[1].ev = "cb"

\* C28: for every inbound PUBLISH frame of received length len >= 4, the
\* payload length passed to the publish callback equals len - 1 -
\* (length-field bytes) - 2 - topic_len - (2 if qos is 1 or 2), never wraps
\* below zero, and is never greater than len, whatever topic length the
\* frame declares.
C28_PayloadLength ==
    PublishDelivered
    => LET len == Len(rx.data)
           n == rx.trace[1].args[3]
           step == decode_length(rx.data, 0).step
           qos == (rx.data[1] \div 2) % 4
       IN  /\ n >= 0
           /\ n <= len
           /\ len >= step + 3
              => n = len - 1 - step - 2
                     - (rx.data[step + 2] * 256 + rx.data[step + 3])
                     - (IF qos \in {1, 2} THEN 2 ELSE 0)

\* what the handler of the last dispatch does with the same frame when the
\* buffer holds `junk` past the received bytes
Rerun(junk) ==
    Process(rx.handler, [trace |-> <<>>, fault |-> "none", queue |-> <<>>],
            rx.data, Len(rx.data) % U8, junk)

\* C29: every inbound handler reads only bytes at offsets < len of the frame
\* it was given: for every frame accepted by a handler's length guard (len
\* >= 4), no field (identifier, SUBACK status byte, topic, payload) is taken
\* from beyond the received length, so what the handler does is the same
\* whatever the buffer holds there.
C29_ReadsWithinFrame ==
    (rx.handler \notin {"idle", "none"} /\ Len(rx.data) >= 4)
    => \A j1 \in JunkBytes, j2 \in JunkBytes :
          /\ Rerun(j1).trace = Rerun(j2).trace
          /\ Rerun(j1).fault = Rerun(j2).fault

-----------------------------------------------------------------------------
(* Claims about the value mqtt_subscribe returns *)

\* C30: mqtt_subscribe returns the packet identifier that it wrote into the
\* SUBSCRIBE frame it enqueued, for every value of the 16-bit identifier
\* counter, so the caller can match the later suback(status, id) callback
\* against the returned value.
C30_SubscribeReturnsId ==
    (tx.op = "subscribe" /\ tx.built.ok)
    => /\ tx.built.ret = tx.built.id
       /\ BE16(tx.built.ret) = SubSeq(tx.built.data, 3, 4)

-----------------------------------------------------------------------------
(* The response task of the WiFi backend, byte by byte (esp8266.c)           *)

\* the character literals the task compares with
chr == [nul |-> 0, lf |-> 10, cr |-> 13, sp |-> 32, comma |-> 44,
        zero |-> 48, colon |-> 58, x |-> 120]

\* "+IPD", "CONNECT", "CLOSED", "WIFI CONNECTED", "WIFI DISCONNECT"
str_IPD == <<43, 73, 80, 68>>
str_CONNECT == <<67, 79, 78, 78, 69, 67, 84>>
str_CLOSED == <<67, 76, 79, 83, 69, 68>>
str_WIFI_CONNECTED == <<87, 73, 70, 73, 32, 67, 79, 78, 78, 69, 67, 84, 69, 68>>
str_WIFI_DISCONNECT ==
    <<87, 73, 70, 73, 32, 68, 73, 83, 67, 79, 78, 78, 69, 67, 84>>

\* "OK", "FAIL", "ERROR", "ALREADY CONNECTED", "SEND OK"
status_code ==
    <<[status_str |-> <<79, 75>>, code |-> "ESP_ERR_OK"],
      [status_str |-> <<70, 65, 73, 76>>, code |-> "ESP_ERR_FAIL"],
      [status_str |-> <<69, 82, 82, 79, 82>>, code |-> "ESP_ERR_FAIL"],
      [status_str |-> <<65, 76, 82, 69, 65, 68, 89, 32,
                        67, 79, 78, 78, 69, 67, 84, 69, 68>>,
       code |-> "ESP_ERR_ALREADY"],
      [status_str |-> <<83, 69, 78, 68, 32, 79, 75>>, code |-> "ESP_ERR_OK"]>>

\* 0 == strncmp(data + off, str, n), from character i on: str ends with a
\* NUL, data holds `junk` behind the bytes stored
RECURSIVE strncmp(_, _, _, _, _, _)
strncmp(data, off, str, n, i, junk) ==
    IF i >= n THEN TRUE
    ELSE LET a == At(data, off + i, junk)
             b == IF i < Len(str) THEN str[i + 1] ELSE chr.nul
         IN  IF a # b THEN FALSE
             ELSE IF a = chr.nul THEN TRUE
             ELSE strncmp(data, off, str, n, i + 1, junk)

\* what a line processor did: its result, the calls it made, and whether it
\* never returned
LineResult(ret, calls, hang) == [ret |-> ret, calls |-> calls, hang |-> hang]

try_process_status(data, len, junk) ==
    LET hits == {i \in 1..Len(status_code) :
                    strncmp(data, 0, status_code[i].status_str, len - 2, 0,
                            junk)}
        first == CHOOSE i \in hits : \A j \in hits : i <= j
    IN  IF hits = {} THEN LineResult(FALSE, <<>>, FALSE)
        ELSE LineResult(TRUE, <<[fn |-> "xStatusQueue",
                                 arg |-> status_code[first].code]>>, FALSE)

\* parse_id, one step: "while" is the test of the loop, "if" its body.
\* `continue` goes back to the test with pdata where it was.
parse_id_step(data, st, junk) ==
    LET c == At(data, st.pdata, junk)
    IN  CASE st.pc = "while" ->
               IF c # chr.comma /\ c # chr.nul
               THEN [st EXCEPT !.pc = "if"]
               ELSE [st EXCEPT !.pc = "return"]
          [] st.pc = "if" ->
               IF c = chr.sp
               THEN [st EXCEPT !.pc = "while"]
               ELSE [pc |-> "while",
                     val |-> (st.val * 10 + (c - chr.zero)) % U16,
                     pdata |-> st.pdata + 1]
          [] OTHER -> st

\* the state parse_id begins in
parse_id_entry == [pc |-> "while", val |-> 0, pdata |-> 0]

\* the loop test is reached again with nothing changed
Spins(data, st, junk) ==
    /\ st.pc = "while"
    /\ parse_id_step(data, parse_id_step(data, st, junk), junk) = st

\* parse_id run to its return, if it has one
RECURSIVE parse_id(_, _, _)
parse_id(data, st, junk) ==
    IF st.pc = "return" THEN [val |-> st.val, hang |-> FALSE]
    ELSE IF Spins(data, st, junk) THEN [val |-> st.val, hang |-> TRUE]
    ELSE parse_id(data, parse_id_step(data, st, junk), junk)

\* the first while of try_process_server_connect: the offset of the first
\* ',' or NUL
RECURSIVE find_comma(_, _, _)
find_comma(data, i, junk) ==
    IF At(data, i, junk) \in {chr.nul, chr.comma} THEN i
    ELSE find_comma(data, i + 1, junk)

\* which callback try_process_server_connect chooses: "none" when it
\* returns FALSE
server_slot(data, junk) ==
    LET p == find_comma(data, 0, junk)
    IN  IF At(data, p, junk) = chr.nul THEN "none"
        ELSE IF strncmp(data, p + 1, str_CONNECT, 7, 0, junk)
        THEN "server_connect"
        ELSE IF strncmp(data, p + 1, str_CLOSED, 6, 0, junk)
        THEN "server_disconnect"
        ELSE "none"

\* g_driver.server_connect(id) and g_driver.server_disconnect(id) take a
\* uint8_t
server_call(slot, id) == [fn |-> slot, arg |-> id % U8]

try_process_server_connect(data, len, junk) ==
    LET slot == server_slot(data, junk)
        id == parse_id(data, parse_id_entry, junk)
    IN  IF slot = "none" THEN LineResult(FALSE, <<>>, FALSE)
        ELSE IF id.hang THEN LineResult(TRUE, <<>>, TRUE)
        ELSE LineResult(TRUE, <<server_call(slot, id.val)>>, FALSE)

try_process_ap_connect(data, len, junk) ==
    IF strncmp(data, 0, str_WIFI_CONNECTED, len - 2, 0, junk)
    THEN LineResult(TRUE, <<[fn |-> "ap_connect", arg |-> 0]>>, FALSE)
    ELSE IF strncmp(data, 0, str_WIFI_DISCONNECT, len - 2, 0, junk)
    THEN LineResult(TRUE, <<[fn |-> "ap_disconnect", arg |-> 0]>>, FALSE)
    ELSE LineResult(FALSE, <<>>, FALSE)

try_process_default(data, len, junk) ==
    LineResult(TRUE, <<[fn |-> "xAtQueue", arg |-> 0]>>, FALSE)

\* process_funcs is tried in order until one returns TRUE
process_line(data, len, junk) ==
    IF len <= 2 THEN LineResult(FALSE, <<>>, FALSE)
    ELSE LET status == try_process_status(data, len, junk)
             server == try_process_server_connect(data, len, junk)
             ap == try_process_ap_connect(data, len, junk)
         IN  IF status.ret THEN status
             ELSE IF server.ret THEN server
             ELSE IF ap.ret THEN ap
             ELSE try_process_default(data, len, junk)

\* `under` is the byte in front of node_data, which the comparison with
\* "\r\n" reads when len = 1
process_at_data(data, len, under, junk) ==
    IF len >= 4 /\ strncmp(data, 0, str_IPD, 4, 0, junk)
    THEN [ret |-> 1, g_curmode |-> "mode_tcp_head", calls |-> <<>>,
          hang |-> FALSE]
    ELSE LET a == IF len >= 2 THEN data[len - 1] ELSE under
             b == data[len]
             line == process_line(data, len, junk)
         IN  IF a = chr.cr /\ b = chr.lf
             THEN [ret |-> 1, g_curmode |-> "mode_at", calls |-> line.calls,
                   hang |-> line.hang]
             ELSE [ret |-> 0, g_curmode |-> "mode_at", calls |-> <<>>,
                   hang |-> FALSE]

\* the for loop of process_tcp_head over pdata = data + 1
RECURSIVE tcp_head_loop(_, _, _, _, _, _, _)
tcp_head_loop(data, len, i, calc_id, val, id, length) ==
    IF i >= len - 1 THEN [ret |-> 0, id |-> id, length |-> length]
    ELSE LET c == data[i + 2]
             digit == (val * 10 + (c - chr.zero)) % U16
         IN  IF calc_id
             THEN IF c = chr.comma
                  THEN tcp_head_loop(data, len, i + 1, FALSE, 0, val, length)
                  ELSE tcp_head_loop(data, len, i + 1, TRUE, digit, id,
                                     length)
             ELSE IF c = chr.colon
                  THEN [ret |-> 1, id |-> id, length |-> val]
                  ELSE tcp_head_loop(data, len, i + 1, FALSE, digit, id,
                                     length)

process_tcp_head(data, len, id, length) ==
    LET r == IF data[len] = chr.colon
             THEN tcp_head_loop(data, len, 0, TRUE, 0, id, length)
             ELSE [ret |-> 0, id |-> id, length |-> length]
    IN  [ret |-> r.ret, id |-> r.id, length |-> r.length,
         g_curmode |-> IF r.ret = 0 THEN "mode_tcp_head"
                       ELSE IF r.length = 0 THEN "mode_at"
                       ELSE "mode_tcp_data"]

\* the node process_tcp_data builds from the buffer
tcp_node(id, data, len) ==
    [id |-> id % U8, size |-> len, data |-> SubSeq(data, 1, len)]

\* the blocking serial_getchar of the outer loop returns a byte: the task
\* starts over in mode_at and stores the byte at node_data[0].  calc holds
\* the locals of the task, g_curmode, xTcpQueue, the calls made for the
\* lines, the bytes still to arrive (stream) and the offset at which the
\* last byte was stored (stored).
ResponseFirstByte ==
    /\ fault = "none"
    /\ calc.op = "serial"
    /\ calc.pc = "outer"
    /\ calc.stream # <<>>
    /\ calc' = [calc EXCEPT !.stream = Tail(@), !.pc = "inner",
                            !.g_curmode = "mode_at", !.link_id = 0,
                            !.tcp_size = 0, !.node_size = 1,
                            !.node_data = <<Head(calc.stream)>>,
                            !.stored = 0]
    /\ UNCHANGED <<g_driver, g_uuid, xSendQueue, fault, rx, tx, ids, wire, reg>>

\* the serial_getchar of the inner loop returns a byte within xDelay: the
\* byte is stored through pData, node_size is counted up, and the switch
\* on g_curmode runs.  A store behind node_data[63] lands in the stack of
\* the task, with either outcome.
ResponseNextByte(under, junk, outcome) ==
    /\ fault = "none"
    /\ calc.op = "serial"
    /\ calc.pc = "inner"
    /\ calc.stream # <<>>
    /\ LET at == Len(calc.node_data)
           node_data == Append(calc.node_data, Head(calc.stream))
           node_size == (calc.node_size + 1) % U8
           stored == [calc EXCEPT !.stream = Tail(@),
                                  !.node_data = node_data,
                                  !.node_size = node_size, !.stored = at]
           reset(c) == [c EXCEPT !.node_data = <<>>, !.node_size = 0]
           atd == process_at_data(node_data, node_size, under, junk)
           head == process_tcp_head(node_data, node_size, calc.link_id,
                                    calc.tcp_size)
           tcp_size == (calc.tcp_size - 1) % U16
           queued == [stored EXCEPT
                        !.tcp_size = tcp_size,
                        !.xTcpQueue =
                            process_tcp_data(@, <<tcp_node(calc.link_id,
                                                            node_data,
                                                            node_size)>>)]
       IN  IF at >= ESP_MAX_MSG_SIZE_PER_LINE /\ outcome = "corrupt"
           THEN calc' = stored /\ fault' = "stack"
           ELSE CASE calc.g_curmode = "mode_at" ->
                       /\ calc' = IF atd.hang THEN stored
                                  ELSE IF atd.ret > 0
                                  THEN reset([stored EXCEPT
                                                !.g_curmode = atd.g_curmode,
                                                !.trace = @ \o atd.calls])
                                  ELSE stored
                       /\ fault' = IF atd.hang THEN "hang" ELSE "none"
                  [] calc.g_curmode = "mode_tcp_head" ->
                       /\ calc' = IF head.ret > 0
                                  THEN reset([stored EXCEPT
                                                !.g_curmode = head.g_curmode,
                                                !.link_id = head.id,
                                                !.tcp_size = head.length])
                                  ELSE [stored EXCEPT !.link_id = head.id]
                       /\ fault' = "none"
                  [] calc.g_curmode = "mode_tcp_data" ->
                       /\ calc' = IF tcp_size = 0
                                  THEN reset([queued EXCEPT
                                                !.g_curmode = "mode_at"])
                                  ELSE IF node_size >= ESP_MAX_MSG_SIZE_PER_LINE
                                  THEN reset(queued)
                                  ELSE [stored EXCEPT !.tcp_size = tcp_size]
                       /\ fault' = "none"
    /\ UNCHANGED <<g_driver, g_uuid, xSendQueue, rx, tx, ids, wire, reg>>

\* no byte within xDelay: the inner loop ends and the task blocks in the
\* outer serial_getchar
ResponseTimeout ==
    /\ fault = "none"
    /\ calc.op = "serial"
    /\ calc.pc = "inner"
    /\ calc' = [calc EXCEPT !.pc = "outer"]
    /\ UNCHANGED <<g_driver, g_uuid, xSendQueue, fault, rx, tx, ids, wire, reg>>

\* bound on the length of a line, of a "+IPD" header and of a TCP payload
MaxLine == 66

\* the two decimal digits of n
Dec2(n) == <<chr.zero + (n \div 10), chr.zero + (n % 10)>>

Fill(n, c) == [i \in 1..n |-> c]

\* "OK\r\n"
LineOk == <<79, 75, chr.cr, chr.lf>>

\* what the module sends on the port without a pause
SerialStreams ==
    {LineOk,
     \* "0,CONNECT\r\n" and "\r\nOK\r\n"
     <<chr.zero, chr.comma>> \o str_CONNECT \o <<chr.cr, chr.lf>>
        \o <<chr.cr, chr.lf>> \o LineOk,
     \* "1 ,CLOSED\r\n"
     <<chr.zero + 1, chr.sp, chr.comma>> \o str_CLOSED \o <<chr.cr, chr.lf>>,
     \* "WIFI CONNECTED\r\n", a stray "\n", "busy\r\n"
     str_WIFI_CONNECTED \o <<chr.cr, chr.lf>> \o <<chr.lf>>
        \o <<98, 117, 115, 121, chr.cr, chr.lf>>,
     \* "+IPD,0,2:" with a PINGRESP, then "\r\nOK\r\n"
     str_IPD \o <<chr.comma, chr.zero, chr.comma, chr.zero + 2, chr.colon>>
        \o <<TYPE_PINGRESP, 0>> \o <<chr.cr, chr.lf>> \o LineOk,
     \* "+IPD,0,<MaxLine>:" with a payload of MaxLine bytes
     str_IPD \o <<chr.comma, chr.zero, chr.comma>> \o Dec2(MaxLine)
        \o <<chr.colon>> \o Fill(MaxLine, chr.x),
     \* "+IPD,0,0:" then "OK\r\n"
     str_IPD \o <<chr.comma, chr.zero, chr.comma, chr.zero, chr.colon>>
        \o LineOk,
     \* a line of MaxLine characters
     Fill(MaxLine - 2, chr.x) \o <<chr.cr, chr.lf>>,
     \* "+IPD" and a header in which no ':' arrives
     str_IPD \o <<chr.comma>> \o Fill(MaxLine - 1, chr.zero)}

UnderBytes == {chr.nul, chr.cr}
LineJunk == {chr.nul, chr.comma}

InitSerial ==
    /\ InitEngine
    /\ \E s \in SerialStreams :
          calc = [op |-> "serial", stream |-> s, pc |-> "outer",
                  g_curmode |-> "mode_at", link_id |-> 0, tcp_size |-> 0,
                  node_size |-> 0, node_data |-> <<>>, stored |-> -1,
                  xTcpQueue |-> <<>>, trace |-> <<>>]

NextByte ==
    \E under \in UnderBytes, junk \in LineJunk, outcome \in OverflowOutcomes :
        ResponseNextByte(under, junk, outcome)

NextSerial ==
    \/ ResponseFirstByte
    \/ NextByte
    \/ ResponseTimeout

SpecSerial == InitSerial /\ [][NextSerial]_vars

\* C31: in the response task, for every serial byte stream and in every
\* work mode (mode_at, mode_tcp_head, mode_tcp_data), a byte is stored only
\* at an offset below ESP_MAX_MSG_SIZE_PER_LINE (64): node_size never
\* exceeds 64, no byte is written outside node_data, and no tcp_node of
\* more than 64 bytes is built.
C31_StoreWithinNodeData ==
    calc.op = "serial"
    => /\ calc.stored < ESP_MAX_MSG_SIZE_PER_LINE
       /\ calc.node_size <= ESP_MAX_MSG_SIZE_PER_LINE
       /\ \A i \in 1..Len(calc.xTcpQueue) :
             calc.xTcpQueue[i].size <= ESP_MAX_MSG_SIZE_PER_LINE

-----------------------------------------------------------------------------
(* One line in process_line, with parse_id taken step by step *)

\* bound on the number of characters in front of the comma
MaxIdLen == 3

\* '0', '7' and ' '
IdChars == {chr.zero, chr.zero + 7, chr.sp}

IdTexts == UNION {[1..n -> IdChars] : n \in 0..MaxIdLen}

\* "<id>,CONNECT\r\n" and "<id>,CLOSED\r\n", and "OK\r\n"
ServerLines ==
    {id \o <<chr.comma>> \o word \o <<chr.cr, chr.lf>> :
        id \in IdTexts, word \in {str_CONNECT, str_CLOSED}}
    \cup {LineOk}

\* the response task has a line in node_data and calls process_line.  calc
\* holds the line, where the task is (pc), the callback chosen (slot), the
\* locals of parse_id (st) and the calls made.
InitParse ==
    /\ InitEngine
    /\ \E line \in ServerLines :
          calc = [op |-> "parse", data |-> line, pc |-> "line",
                  slot |-> "none", st |-> parse_id_entry, trace |-> <<>>]

\* process_line up to the call of parse_id: a line that
\* try_process_server_connect does not take is finished here
LineEnter(junk) ==
    /\ fault = "none"
    /\ calc.op = "parse"
    /\ calc.pc = "line"
    /\ LET len == Len(calc.data)
           slot == server_slot(calc.data, junk)
           taken == len > 2 /\ ~try_process_status(calc.data, len, junk).ret
                    /\ slot # "none"
       IN  calc' = IF taken
                   THEN [calc EXCEPT !.pc = "parse_id", !.slot = slot]
                   ELSE [calc EXCEPT
                           !.pc = "read",
                           !.trace = process_line(calc.data, len, junk).calls]
    /\ UNCHANGED <<g_driver, g_uuid, xSendQueue, fault, rx, tx, ids, wire, reg>>

\* the task runs the loop of parse_id one step further
ParseIdStep(junk) ==
    /\ fault = "none"
    /\ calc.op = "parse"
    /\ calc.pc = "parse_id"
    /\ calc.st.pc # "return"
    /\ calc' = [calc EXCEPT !.st = parse_id_step(calc.data, calc.st, junk)]
    /\ UNCHANGED <<g_driver, g_uuid, xSendQueue, fault, rx, tx, ids, wire, reg>>

\* parse_id returns val: the callback is called with it and the task goes
\* back to serial_getchar
ParseIdReturn ==
    /\ fault = "none"
    /\ calc.op = "parse"
    /\ calc.pc = "parse_id"
    /\ calc.st.pc = "return"
    /\ calc' = [calc EXCEPT
                  !.pc = "read",
                  !.trace = <<server_call(calc.slot, calc.st.val)>>]
    /\ UNCHANGED <<g_driver, g_uuid, xSendQueue, fault, rx, tx, ids, wire, reg>>

NextParse ==
    \/ \E junk \in LineJunk : LineEnter(junk)
    \/ \E junk \in LineJunk : ParseIdStep(junk)
    \/ ParseIdReturn

\* the response task is the running task: while it has a step to take, it
\* takes it
SpecParse == InitParse /\ [][NextParse]_vars /\ WF_vars(NextParse)

\* C32: parse_id terminates for every input line: after any line of the
\* form "<id>,CONNECT" or "<id>,CLOSED", with any characters before the
\* comma, spaces included, the response task eventually is back at reading
\* the serial port and the link-up or link-down callback has been invoked.
C32_ParseIdTerminates ==
    <>(calc.op = "parse" /\ calc.pc = "read" /\ calc.trace # <<>>)

=============================================================================
